---- MODULE Spec2Model ----
(***************************************************************************)
(* Model of WebAppManifest::process (src/src/lib.rs) and of the tri-state  *)
(* Url type (src/src/types.rs).                                            *)
(*                                                                         *)
(* Strings are sequences of one-character strings, so that                 *)
(* str::starts_with, the splitting of a reference into path, query and     *)
(* fragment, and the removal of dot segments are computed character by     *)
(* character.  The alphabet is  / . a b ? #  .                             *)
(***************************************************************************)
EXTENDS Integers, Sequences, FiniteSets, TLC

VARIABLES manifest, args, result, before, calls, conversion, threads, counter

vars == <<manifest, args, result, before, calls, conversion, threads, counter>>

(***************************************************************************)
(* Bounds                                                                  *)
(***************************************************************************)
\* total number of resource records (related applications, protocol
\* handlers, shortcuts, shortcut icons, share target, icons, screenshots)
\* of a document
MaxRecords == 2

\* number of process calls made on one document
MaxCalls == 2

(***************************************************************************)
(* url::Url (AbsoluteUrl): the parsed absolute URL                         *)
(*   scheme, host, port (the known default when none is written), path,    *)
(*   query (with its leading ?, empty when absent) and fragment (with its  *)
(*   leading #, empty when absent).                                        *)
(***************************************************************************)
AbsUrl(scheme, host, port, path, query, fragment) ==
    [scheme |-> scheme, host |-> host, port |-> port,
     path |-> path, query |-> query, fragment |-> fragment]

Front(s) == SubSeq(s, 1, Len(s) - 1)

\* str::starts_with
starts_with(s, prefix) ==
    /\ Len(prefix) <= Len(s)
    /\ SubSeq(s, 1, Len(prefix)) = prefix

\* Url::path
path(u) == u.path

\* schemes with a tuple origin
TupleSchemes == {"ftp", "http", "https", "ws", "wss"}

\* a.origin() != b.origin(): the origin is the tuple (scheme, host, port) of
\* the schemes above; of every other scheme it is a fresh opaque origin,
\* which is equal to no origin, not even to one taken from the same URL
origin_ne(a, b) ==
    \/ a.scheme \notin TupleSchemes
    \/ b.scheme \notin TupleSchemes
    \/ <<a.scheme, a.host, a.port>> # <<b.scheme, b.host, b.port>>

\* Url::cannot_be_a_base: what follows "scheme:" does not start with a slash
cannot_be_a_base(u) == u.path = <<>> \/ Head(u.path) # "/"

\* index of the first character of s that is in cs, Len(s) + 1 when none
RECURSIVE Find(_, _, _)
Find(s, cs, i) ==
    IF i > Len(s) THEN i
    ELSE IF s[i] \in cs THEN i
    ELSE Find(s, cs, i + 1)

\* the segments of s between slashes
RECURSIVE Split(_, _, _)
Split(s, cur, acc) ==
    IF s = <<>> THEN Append(acc, cur)
    ELSE Split(Tail(s),
               IF Head(s) = "/" THEN <<>> ELSE Append(cur, Head(s)),
               IF Head(s) = "/" THEN Append(acc, cur) ELSE acc)

\* the path state of the URL parser: a ".." segment removes the last
\* segment, a "." segment is dropped, and either of them as the last segment
\* leaves an empty last segment
RECURSIVE parse_path(_, _, _)
parse_path(stack, segs, i) ==
    IF i > Len(segs) THEN stack
    ELSE LET seg == segs[i]
             last == i = Len(segs)
             popped == IF stack = <<>> THEN stack ELSE Front(stack)
             next == IF seg = <<".", ".">>
                     THEN (IF last THEN Append(popped, <<>>) ELSE popped)
                     ELSE IF seg = <<".">>
                     THEN (IF last THEN Append(stack, <<>>) ELSE stack)
                     ELSE Append(stack, seg)
         IN parse_path(next, segs, i + 1)

\* the serialization of a list of path segments
RECURSIVE Serialize(_)
Serialize(segs) ==
    IF segs = <<>> THEN <<>>
    ELSE <<"/">> \o Head(segs) \o Serialize(Tail(segs))

DefaultPort(scheme) ==
    CASE scheme = "https" -> 443
      [] scheme = "http" -> 80
      [] OTHER -> 0

JoinOk(u) == [ok |-> TRUE, url |-> u]
JoinErr(e) == [ok |-> FALSE, err |-> e]

\* number of leading slashes of s
RECURSIVE Slashes(_)
Slashes(s) ==
    IF s # <<>> /\ Head(s) = "/" THEN 1 + Slashes(Tail(s)) ELSE 0

\* s cut in two before position pos
cut(s, pos) == [head |-> SubSeq(s, 1, pos - 1), tail |-> SubSeq(s, pos, Len(s))]

\* the input cut at its first "#" and, before it, at its first "?"
reference(input) ==
    LET f == cut(input, Find(input, {"#"}, 1))
        q == cut(f.head, Find(f.head, {"?"}, 1))
    IN [path |-> q.head, query |-> q.tail, fragment |-> f.tail]

\* "//" and what follows: a scheme other than file skips further slashes,
\* then the host runs up to the next slash; no port is written, so the port
\* is the default of the scheme
join_authority(base, ref, auth) ==
    LET a == cut(auth, Find(auth, {"/"}, 1))
    IN IF a.head = <<>> /\ base.scheme # "file"
       THEN JoinErr("EmptyHost")
       ELSE JoinOk(AbsUrl(base.scheme, a.head, DefaultPort(base.scheme),
                          Serialize(parse_path(<<>>, Split(SubSeq(a.tail, 2, Len(a.tail)),
                                                           <<>>, <<>>), 1)),
                          ref.query, ref.fragment))

\* a path, absolute (one leading slash) or relative to the base's directory
join_path(base, ref, slashes) ==
    JoinOk([base EXCEPT
              !.path = Serialize(parse_path(
                           IF slashes = 1 THEN <<>>
                           ELSE Front(Split(Tail(base.path), <<>>, <<>>)),
                           Split(SubSeq(ref.path, slashes + 1, Len(ref.path)), <<>>, <<>>),
                           1)),
              !.query = ref.query, !.fragment = ref.fragment])

join_reference(base, input, ref, slashes) ==
    IF input # <<>> /\ Head(input) = "#"
    THEN JoinOk([base EXCEPT !.fragment = ref.fragment])
    ELSE IF cannot_be_a_base(base)
    THEN JoinErr("RelativeUrlWithCannotBeABaseBase")
    ELSE IF ref.path = <<>>
    THEN JoinOk([base EXCEPT !.query = IF ref.query = <<>> THEN base.query ELSE ref.query,
                             !.fragment = ref.fragment])
    ELSE IF slashes >= 2
    THEN join_authority(base, ref,
                        SubSeq(ref.path, (IF base.scheme = "file" THEN 2 ELSE slashes) + 1,
                               Len(ref.path)))
    ELSE join_path(base, ref, slashes)

\* Url::join(base, input): the relative-reference resolution of the URL
\* parser with a base URL, for inputs without a scheme
join(base, input) ==
    join_reference(base, input, reference(input), Slashes(reference(input).path))

(***************************************************************************)
(* types::Url: the tri-state URL                                           *)
(***************************************************************************)
Absolute(u) == [tag |-> "Absolute", url |-> u]
Relative(s) == [tag |-> "Relative", ref |-> s]
Unknown == [tag |-> "Unknown"]

\* Option: a sequence of at most one element
None == <<>>
Some(x) == <<x>>

(***************************************************************************)
(* errors::ManifestError and the outcome of a call                         *)
(***************************************************************************)
Running == [kind |-> "Running"]
Ok == [kind |-> "Ok"]
UrlParsing(e) == [kind |-> "UrlParsing", source |-> e]
InvalidUnknownUrl == [kind |-> "InvalidUnknownUrl"]
NotSameOrigin(u1, u2) == [kind |-> "NotSameOrigin", url1 |-> u1, url2 |-> u2]
NotWithinScope(u, s) == [kind |-> "NotWithinScope", url |-> u, scope |-> s]
Panic == [kind |-> "unreachable"]

(***************************************************************************)
(* WebAppManifest::process                                                 *)
(* Every step takes the document and yields [m: the document as the step   *)
(* leaves it, r: Running, or the error the step returns].                  *)
(***************************************************************************)

\* absolute_or_error, but a field whose join fails is left as the empty
\* reference
absolute_or_error_empties(url, j) ==
    IF j.ok THEN [v |-> Absolute(j.url), r |-> Running]
            ELSE [v |-> Relative(<<>>), r |-> UrlParsing(j.err)]

\* absolute_or_error, but a field whose join fails is left unset
absolute_or_error_clears(url, j) ==
    IF j.ok THEN [v |-> Absolute(j.url), r |-> Running]
            ELSE [v |-> Unknown, r |-> UrlParsing(j.err)]

\* .map(Url::Absolute)? on the outcome j of a join of the field url:
\* [v: the field afterwards, r: Running or the error]
absolute_or_error(url, j) ==
    IF j.ok THEN [v |-> Absolute(j.url), r |-> Running]
            ELSE [v |-> url, r |-> UrlParsing(j.err)]

\* the assignment of a step's outcome res = [v, r] to a field of the document
store(m, field, res) == [m |-> [m EXCEPT ![field] = res.v], r |-> res.r]

\* resolve, but everything that is not a Relative is rejected
resolve_rejects_absolute(url, manifest_url) ==
    IF url.tag = "Relative"
    THEN absolute_or_error(url, join(manifest_url, url.ref))
    ELSE [v |-> url, r |-> InvalidUnknownUrl]

\* resolve, but a Relative is left as it is
resolve_skip_relative(url, manifest_url) ==
    IF url.tag = "Unknown"
    THEN [v |-> url, r |-> InvalidUnknownUrl]
    ELSE [v |-> url, r |-> Running]

\* resolve, but an Unknown is let through
resolve_unknown_ok(url, manifest_url) ==
    IF url.tag = "Relative"
    THEN absolute_or_error(url, join(manifest_url, url.ref))
    ELSE [v |-> url, r |-> Running]

\* the three-way match on a resource URL: a Relative is joined to the
\* manifest URL (? returns the join's error), an Unknown is an error, an
\* Absolute stays.  [v: the field afterwards, r: Running or the error]
resolve(url, manifest_url) ==
    IF url.tag = "Relative"
    THEN absolute_or_error(url, join(manifest_url, url.ref))
    ELSE IF url.tag = "Unknown"
    THEN [v |-> url, r |-> InvalidUnknownUrl]
    ELSE [v |-> url, r |-> Running]

\* process_start_url, but an unset start URL is left for later
process_start_url_keeps_unknown(m, document_url, manifest_url) ==
    IF m.start_url.tag = "Relative"
    THEN store(m, "start_url",
               absolute_or_error(m.start_url, join(manifest_url, m.start_url.ref)))
    ELSE [m |-> m, r |-> Running]

\* process_start_url, but everything that is not a Relative becomes the
\* document URL
process_start_url_overwrites(m, document_url, manifest_url) ==
    IF m.start_url.tag = "Relative"
    THEN store(m, "start_url",
               absolute_or_error(m.start_url, join(manifest_url, m.start_url.ref)))
    ELSE [m |-> [m EXCEPT !.start_url = Absolute(document_url)], r |-> Running]

\* process_start_url, but a Relative is joined to the document URL
process_start_url_document_base(m, document_url, manifest_url) ==
    IF m.start_url.tag = "Relative"
    THEN store(m, "start_url",
               absolute_or_error(m.start_url, join(document_url, m.start_url.ref)))
    ELSE IF m.start_url.tag = "Unknown"
    THEN [m |-> [m EXCEPT !.start_url = Absolute(document_url)], r |-> Running]
    ELSE [m |-> m, r |-> Running]

\* process_start_url, but an Unknown becomes the manifest URL
process_start_url_unknown_manifest(m, document_url, manifest_url) ==
    IF m.start_url.tag = "Relative"
    THEN store(m, "start_url",
               absolute_or_error(m.start_url, join(manifest_url, m.start_url.ref)))
    ELSE IF m.start_url.tag = "Unknown"
    THEN [m |-> [m EXCEPT !.start_url = Absolute(manifest_url)], r |-> Running]
    ELSE [m |-> m, r |-> Running]

\* lib.rs 559-564
process_start_url(m, document_url, manifest_url) ==
    IF m.start_url.tag = "Relative"
    THEN store(m, "start_url",
               absolute_or_error(m.start_url, join(manifest_url, m.start_url.ref)))
    ELSE IF m.start_url.tag = "Unknown"
    THEN [m |-> [m EXCEPT !.start_url = Absolute(document_url)], r |-> Running]
    ELSE [m |-> m, r |-> Running]

\* process_scope, but a Relative that does not join is replaced by the default
process_scope_fallback(m, manifest_url) ==
    IF m.scope.tag = "Unknown"
       \/ (m.scope.tag = "Relative" /\ ~join(manifest_url, m.scope.ref).ok)
    THEN IF m.start_url.tag # "Absolute"
         THEN [m |-> m, r |-> Panic]
         ELSE store(m, "scope", absolute_or_error(m.scope, join(m.start_url.url, <<".">>)))
    ELSE IF m.scope.tag = "Relative"
    THEN store(m, "scope", absolute_or_error(m.scope, join(manifest_url, m.scope.ref)))
    ELSE [m |-> m, r |-> Running]

\* process_scope, but the default scope is the directory of the manifest URL
process_scope_manifest_directory(m, manifest_url) ==
    IF m.scope.tag = "Relative"
    THEN store(m, "scope", absolute_or_error(m.scope, join(manifest_url, m.scope.ref)))
    ELSE IF m.scope.tag = "Unknown"
    THEN store(m, "scope", absolute_or_error(m.scope, join(manifest_url, <<".">>)))
    ELSE [m |-> m, r |-> Running]

\* lib.rs 566-576
process_scope(m, manifest_url) ==
    IF m.scope.tag = "Relative"
    THEN store(m, "scope", absolute_or_error(m.scope, join(manifest_url, m.scope.ref)))
    ELSE IF m.scope.tag = "Unknown"
    THEN IF m.start_url.tag # "Absolute"
         THEN [m |-> m, r |-> Panic]
         ELSE store(m, "scope", absolute_or_error(m.scope, join(m.start_url.url, <<".">>)))
    ELSE [m |-> m, r |-> Running]

\* The loops of lib.rs 578-640 run on st = [v: the list, r: Running or the
\* error returned]; a loop that returns an error leaves the records before
\* the failing one rewritten.

\* the outcome res of resolve, written to the url of record i
set_url(records, i, res) ==
    [v |-> IF res.r = Running THEN [records EXCEPT ![i].url = res.v] ELSE records,
     r |-> res.r]

\* the same for an Option url
set_some_url(records, i, res) ==
    [v |-> IF res.r = Running THEN [records EXCEPT ![i].url = Some(res.v)] ELSE records,
     r |-> res.r]

\* the same for the src of image i
set_src(images, i, res) ==
    [v |-> IF res.r = Running THEN [images EXCEPT ![i].src = res.v] ELSE images,
     r |-> res.r]

\* the outcome res of the loop over the icons of shortcut i, written to it
set_icons(shortcuts, i, res) ==
    [v |-> [shortcuts EXCEPT ![i].icons = res.v], r |-> res.r]

\* set_action, but the share target is taken out of the document and put
\* back only when its action resolved
set_action_taken(share_target, res) ==
    [v |-> IF res.r = Running THEN Some([share_target[1] EXCEPT !.action = res.v])
                              ELSE None,
     r |-> res.r]

\* the same for the action of the share target
set_action(share_target, res) ==
    [v |-> IF res.r = Running THEN Some([share_target[1] EXCEPT !.action = res.v])
                              ELSE share_target,
     r |-> res.r]

\* lib.rs 579-587: for external_application in &mut self.related_applications
RECURSIVE process_related_applications(_, _, _)
process_related_applications(st, i, manifest_url) ==
    IF i > Len(st.v) \/ st.r # Running THEN st
    ELSE process_related_applications(
             IF st.v[i].url = None THEN st
             ELSE set_some_url(st.v, i, resolve(st.v[i].url[1], manifest_url)),
             i + 1, manifest_url)

\* lib.rs 590-596: for protocol_handler in &mut self.protocol_handlers
RECURSIVE process_protocol_handlers(_, _, _)
process_protocol_handlers(st, i, manifest_url) ==
    IF i > Len(st.v) \/ st.r # Running THEN st
    ELSE process_protocol_handlers(
             set_url(st.v, i, resolve(st.v[i].url, manifest_url)), i + 1, manifest_url)

\* lib.rs 606-612, 625-631, 634-640: for icon in &mut icons, on the src field
RECURSIVE process_srcs(_, _, _)
process_srcs(st, i, manifest_url) ==
    IF i > Len(st.v) \/ st.r # Running THEN st
    ELSE process_srcs(
             set_src(st.v, i, resolve(st.v[i].src, manifest_url)), i + 1, manifest_url)

\* lib.rs 606-612: the icons of shortcut i, reached when its url resolved
process_shortcut_icons(st, i, manifest_url) ==
    IF st.r # Running THEN st
    ELSE set_icons(st.v, i,
                   process_srcs([v |-> st.v[i].icons, r |-> Running], 1, manifest_url))

\* lib.rs 599-613: for shortcut in &mut self.shortcuts: its url, then its icons
RECURSIVE process_shortcuts(_, _, _)
process_shortcuts(st, i, manifest_url) ==
    IF i > Len(st.v) \/ st.r # Running THEN st
    ELSE process_shortcuts(
             process_shortcut_icons(
                 set_url(st.v, i, resolve(st.v[i].url, manifest_url)), i, manifest_url),
             i + 1, manifest_url)

\* lib.rs 616-622
process_share_target(share_target, manifest_url) ==
    IF share_target = None THEN [v |-> share_target, r |-> Running]
    ELSE set_action(share_target, resolve(share_target[1].action, manifest_url))

\* `?` and `return Err(..)`: a step runs only while no error was returned.
\* The steps of lib.rs 566-640, each on [m: the document, r: Running or the
\* error returned so far].
scope_step(st, manifest_url) ==
    IF st.r # Running THEN st ELSE process_scope(st.m, manifest_url)

related_applications_step(st, manifest_url) ==
    IF st.r # Running THEN st
    ELSE store(st.m, "related_applications",
               process_related_applications(
                   [v |-> st.m.related_applications, r |-> Running], 1, manifest_url))

protocol_handlers_step(st, manifest_url) ==
    IF st.r # Running THEN st
    ELSE store(st.m, "protocol_handlers",
               process_protocol_handlers(
                   [v |-> st.m.protocol_handlers, r |-> Running], 1, manifest_url))

shortcuts_step(st, manifest_url) ==
    IF st.r # Running THEN st
    ELSE store(st.m, "shortcuts",
               process_shortcuts([v |-> st.m.shortcuts, r |-> Running], 1, manifest_url))

share_target_step(st, manifest_url) ==
    IF st.r # Running THEN st
    ELSE store(st.m, "share_target",
               process_share_target(st.m.share_target, manifest_url))

icons_step(st, manifest_url) ==
    IF st.r # Running THEN st
    ELSE store(st.m, "icons",
               process_srcs([v |-> st.m.icons, r |-> Running], 1, manifest_url))

screenshots_step(st, manifest_url) ==
    IF st.r # Running THEN st
    ELSE store(st.m, "screenshots",
               process_srcs([v |-> st.m.screenshots, r |-> Running], 1, manifest_url))

\* not_within_scope, but with the prefix test turned round
not_within_scope_reversed(url, scope) ==
    origin_ne(url, scope) \/ ~starts_with(path(scope), path(url))

\* not_within_scope, but only the origins are compared
not_within_scope_origin_only(url, scope) ==
    origin_ne(url, scope)

\* not_within_scope, but the queries are compared too
not_within_scope_and_query(url, scope) ==
    \/ origin_ne(url, scope)
    \/ ~starts_with(path(url), path(scope))
    \/ url.query # scope.query

\* not_within_scope, but the paths are compared segment by segment, a
\* trailing slash of the scope left aside
not_within_scope_by_segments(url, scope) ==
    \/ origin_ne(url, scope)
    \/ ~starts_with(Split(Tail(path(url)), <<>>, <<>>),
                    IF path(scope)[Len(path(scope))] = "/"
                    THEN Front(Split(Tail(path(scope)), <<>>, <<>>))
                    ELSE Split(Tail(path(scope)), <<>>, <<>>))

\* the condition of lib.rs 663, 679-680, 697-698, 715: the URL is outside
\* the scope
not_within_scope(url, scope) ==
    origin_ne(url, scope) \/ ~starts_with(path(url), path(scope))

\* check_urls, but the last record outside the scope decides
RECURSIVE check_urls_last(_, _, _)
check_urls_last(records, i, scope) ==
    IF i > Len(records) THEN Running
    ELSE LET rest == check_urls_last(records, i + 1, scope)
         IN IF rest # Running THEN rest
            ELSE IF records[i].url.tag # "Absolute" THEN Panic
            ELSE IF not_within_scope(records[i].url.url, scope)
            THEN NotWithinScope(records[i].url.url, scope)
            ELSE Running

\* lib.rs 671-687, 690-705: the first record of the list whose url is
\* outside the scope decides
RECURSIVE check_urls(_, _, _)
check_urls(records, i, scope) ==
    IF i > Len(records) THEN Running
    ELSE IF records[i].url.tag # "Absolute" THEN Panic
    ELSE IF not_within_scope(records[i].url.url, scope)
    THEN NotWithinScope(records[i].url.url, scope)
    ELSE check_urls(records, i + 1, scope)

\* lib.rs 708-721
check_share_target(share_target, scope) ==
    IF share_target = None THEN Running
    ELSE IF share_target[1].action.tag # "Absolute" THEN Panic
    ELSE IF not_within_scope(share_target[1].action.url, scope)
    THEN NotWithinScope(share_target[1].action.url, scope)
    ELSE Running

\* validate, but the start URL is not compared with the document URL
validate_scope_only(m, document_url) ==
    IF m.scope.tag # "Absolute" \/ m.start_url.tag # "Absolute" THEN Panic
    ELSE LET scope == m.scope.url
             start_url == m.start_url.url
             ph == check_urls(m.protocol_handlers, 1, scope)
             sc == check_urls(m.shortcuts, 1, scope)
             st == check_share_target(m.share_target, scope)
         IN IF not_within_scope(start_url, scope)
            THEN NotWithinScope(start_url, scope)
            ELSE IF ph # Running THEN ph
            ELSE IF sc # Running THEN sc
            ELSE IF st # Running THEN st
            ELSE Ok

\* validate, but the icons must lie within the scope too
validate_icons_in_scope(m, document_url) ==
    IF m.scope.tag # "Absolute" \/ m.start_url.tag # "Absolute" THEN Panic
    ELSE LET scope == m.scope.url
             start_url == m.start_url.url
             ph == check_urls(m.protocol_handlers, 1, scope)
             sc == check_urls(m.shortcuts, 1, scope)
             st == check_share_target(m.share_target, scope)
             out == { i \in DOMAIN m.icons : not_within_scope(m.icons[i].src.url, scope) }
         IN IF origin_ne(start_url, document_url)
            THEN NotSameOrigin(start_url, document_url)
            ELSE IF not_within_scope(start_url, scope)
            THEN NotWithinScope(start_url, scope)
            ELSE IF ph # Running THEN ph
            ELSE IF sc # Running THEN sc
            ELSE IF st # Running THEN st
            ELSE IF out # {}
            THEN NotWithinScope(m.icons[CHOOSE i \in out : \A j \in out : i <= j].src.url, scope)
            ELSE Ok

\* lib.rs 642-723: the checks, which change nothing in the document
validate(m, document_url) ==
    IF m.scope.tag # "Absolute" \/ m.start_url.tag # "Absolute" THEN Panic
    ELSE LET scope == m.scope.url
             start_url == m.start_url.url
             ph == check_urls(m.protocol_handlers, 1, scope)
             sc == check_urls(m.shortcuts, 1, scope)
             st == check_share_target(m.share_target, scope)
         IN IF origin_ne(start_url, document_url)
            THEN NotSameOrigin(start_url, document_url)
            ELSE IF not_within_scope(start_url, scope)
            THEN NotWithinScope(start_url, scope)
            ELSE IF ph # Running THEN ph
            ELSE IF sc # Running THEN sc
            ELSE IF st # Running THEN st
            ELSE Ok

\* lib.rs 642-723, reached when no step returned an error
validate_step(st, document_url) ==
    IF st.r # Running THEN st
    ELSE [m |-> st.m, r |-> validate(st.m, document_url)]

\* process, but the top-level icons are resolved before the shortcuts
process_icons_before_shortcuts(m, document_url, manifest_url) ==
    validate_step(
      screenshots_step(
        share_target_step(
          shortcuts_step(
            icons_step(
              protocol_handlers_step(
                related_applications_step(
                  scope_step(process_start_url(m, document_url, manifest_url),
                             manifest_url),
                  manifest_url),
                manifest_url),
              manifest_url),
            manifest_url),
          manifest_url),
        manifest_url),
      document_url)

\* lib.rs 554-725: the steps in the order of the code
process(m, document_url, manifest_url) ==
    validate_step(
      screenshots_step(
        icons_step(
          share_target_step(
            shortcuts_step(
              protocol_handlers_step(
                related_applications_step(
                  scope_step(process_start_url(m, document_url, manifest_url),
                             manifest_url),
                  manifest_url),
                manifest_url),
              manifest_url),
            manifest_url),
          manifest_url),
        manifest_url),
      document_url)

(***************************************************************************)
(* The documents and context URLs of the model                             *)
(***************************************************************************)
Https(host, p) == AbsUrl("https", host, 443, p, <<>>, <<>>)

\* https://a/a/b, https://a/b, file:///a/b and data:a
DocumentUrls ==
    { Https(<<"a">>, <<"/", "a", "/", "b">>),
      Https(<<"a">>, <<"/", "b">>),
      AbsUrl("file", <<>>, 0, <<"/", "a", "/", "b">>, <<>>, <<>>),
      AbsUrl("data", <<>>, 0, <<"a">>, <<>>, <<>>) }

\* https://a/a/b/a and https://b/a/a
ManifestUrls ==
    { Https(<<"a">>, <<"/", "a", "/", "b", "/", "a">>),
      Https(<<"b">>, <<"/", "a", "/", "a">>) }

\* the reference "//" has an empty host: joining it fails
BadRef == <<"/", "/">>

\* start_url: unset, b, //, https://a/a/b, https://b/a/b, http://a/a/b,
\* https://a:8/a/b
StartVals ==
    { Unknown, Relative(<<"b">>), Relative(BadRef),
      Absolute(Https(<<"a">>, <<"/", "a", "/", "b">>)),
      Absolute(Https(<<"b">>, <<"/", "a", "/", "b">>)),
      Absolute(AbsUrl("http", <<"a">>, 80, <<"/", "a", "/", "b">>, <<>>, <<>>)),
      Absolute(AbsUrl("https", <<"a">>, 8, <<"/", "a", "/", "b">>, <<>>, <<>>)) }

\* scope: unset, ., //, https://a/a/, https://a/a, https://b/a/,
\* https://a/a/b/a
ScopeVals ==
    { Unknown, Relative(<<".">>), Relative(BadRef),
      Absolute(Https(<<"a">>, <<"/", "a", "/">>)),
      Absolute(Https(<<"a">>, <<"/", "a">>)),
      Absolute(Https(<<"b">>, <<"/", "a", "/">>)),
      Absolute(Https(<<"a">>, <<"/", "a", "/", "b", "/", "a">>)) }

\* the start_url and scope of the documents that carry MaxRecords records;
\* the other documents carry one record less
PlainStartVals ==
    { Unknown, Relative(<<"b">>), Absolute(Https(<<"a">>, <<"/", "a", "/", "b">>)) }
PlainScopeVals == { Unknown, Absolute(Https(<<"a">>, <<"/", "a", "/">>)) }

\* URLs of protocol handlers, shortcuts and the share target: unset, a, //,
\* https://a/a/b, https://a/b, https://b/a/b
ScopedVals ==
    { Unknown, Relative(<<"a">>), Relative(BadRef),
      Absolute(Https(<<"a">>, <<"/", "a", "/", "b">>)),
      Absolute(Https(<<"a">>, <<"/", "b">>)),
      Absolute(Https(<<"b">>, <<"/", "a", "/", "b">>)) }

\* URLs of related applications, icons and screenshots: unset, a, //,
\* https://b/b
ExemptVals ==
    { Unknown, Relative(<<"a">>), Relative(BadRef),
      Absolute(Https(<<"b">>, <<"/", "b">>)) }

RelatedRecs == { [platform |-> "play", url |-> u] :
                   u \in {None} \cup { Some(v) : v \in ExemptVals } }
HandlerRecs == { [protocol |-> "mailto", url |-> u] : u \in ScopedVals }
ImageRecs == { [src |-> u, label |-> "image"] : u \in ExemptVals }
ShareRecs == { [action |-> u, method |-> "GET"] : u \in ScopedVals }
ShortcutRecs(k) ==
    { [name |-> "shortcut", url |-> u, icons |-> ic] :
        u \in ScopedVals, ic \in UNION { [1..n -> ImageRecs] : n \in 0..k } }

RECURSIVE IconCount(_)
IconCount(shortcuts) ==
    IF shortcuts = <<>> THEN 0
    ELSE Len(Head(shortcuts).icons) + IconCount(Tail(shortcuts))

\* the number of resource records of a document
Records(m) ==
    Len(m.related_applications) + Len(m.protocol_handlers) + Len(m.shortcuts)
    + IconCount(m.shortcuts) + Len(m.share_target) + Len(m.icons)
    + Len(m.screenshots)

Budget(start_url, scope) ==
    IF start_url \in PlainStartVals /\ scope \in PlainScopeVals
    THEN MaxRecords ELSE MaxRecords - 1

(***************************************************************************)
(* The state machine: a document is built by its owner, then process is    *)
(* called on it, and may be called again with the same context URLs.       *)
(*   manifest  the document                                                *)
(*   args      <<document_url, manifest_url>> of the last call             *)
(*   result    what the last call returned                                 *)
(*   before    the document at the entry of the last call                  *)
(*   calls     the number of calls made                                    *)
(* The other variables belong to the conversions of the tri-state URL and  *)
(* to the calls that run side by side, further down; here they rest.       *)
(***************************************************************************)
NoCall == [kind |-> "NoCall"]

NoConversion == [op |-> "none"]

Init ==
    /\ \E su \in StartVals, sc \in ScopeVals :
       \E nr \in 0..Budget(su, sc) :
       \E np \in 0..(Budget(su, sc) - nr) :
       \E ns \in 0..(Budget(su, sc) - nr - np) :
       \E nt \in 0..(IF Budget(su, sc) - nr - np - ns > 0 THEN 1 ELSE 0) :
       \E ni \in 0..(Budget(su, sc) - nr - np - ns - nt) :
       \E nn \in 0..(Budget(su, sc) - nr - np - ns - nt - ni) :
       \E ra \in [1..nr -> RelatedRecs], ph \in [1..np -> HandlerRecs],
          sh \in [1..ns -> ShortcutRecs(Budget(su, sc) - nr - np - ns - nt - ni - nn)],
          st \in [1..nt -> ShareRecs], ic \in [1..ni -> ImageRecs],
          ss \in [1..nn -> ImageRecs] :
          /\ manifest = [start_url |-> su, scope |-> sc, name |-> "app",
                         related_applications |-> ra, protocol_handlers |-> ph,
                         shortcuts |-> sh, share_target |-> st,
                         icons |-> ic, screenshots |-> ss]
          /\ Records(manifest) <= Budget(su, sc)
    /\ args = <<>>
    /\ result = NoCall
    /\ before = manifest
    /\ calls = 0
    /\ conversion = NoConversion
    /\ threads = <<>>
    /\ counter = 0

\* manifest.process(&document_url, &manifest_url)
Call(document_url, manifest_url) ==
    \E out \in {process(manifest, document_url, manifest_url)} :
        /\ manifest' = out.m
        /\ result' = out.r
        /\ before' = manifest
        /\ args' = <<document_url, manifest_url>>
        /\ calls' = calls + 1
        /\ UNCHANGED <<conversion, threads, counter>>

\* the first call on a document
Process ==
    /\ calls = 0
    /\ calls < MaxCalls
    /\ \E document_url \in DocumentUrls, manifest_url \in ManifestUrls :
          Call(document_url, manifest_url)

\* a further call on the document the last call left, with the same URLs
Reprocess ==
    /\ calls > 0
    /\ calls < MaxCalls
    /\ Call(args[1], args[2])

Next == Process \/ Reprocess

Spec == Init /\ [][Next]_vars

(***************************************************************************)
(* The same document under calls with changing context URLs: every call    *)
(* after the first takes any document URL and any manifest URL.  The       *)
(* documents have one resource record less than those of Spec.             *)
(***************************************************************************)
InitAnyUrls ==
    /\ Init
    /\ Records(manifest) < Budget(manifest.start_url, manifest.scope)

\* a further call on the document the last call left, with any URLs
ProcessWith ==
    /\ calls > 0
    /\ calls < MaxCalls
    /\ \E document_url \in DocumentUrls, manifest_url \in ManifestUrls :
          Call(document_url, manifest_url)

NextAnyUrls == Process \/ ProcessWith

SpecAnyUrls == InitAnyUrls /\ [][NextAnyUrls]_vars

(***************************************************************************)
(* Vocabulary of the properties                                            *)
(***************************************************************************)
\* the tri-state URL fields of a document that hold a value, in the order in
\* which process visits them: start_url, scope, the related applications'
\* URLs, the protocol handlers' URLs, each shortcut's URL and then the src of
\* its icons, the share target's action, the icons' src, the screenshots' src
RECURSIVE RelatedFields(_)
RelatedFields(apps) ==
    IF apps = <<>> THEN <<>> ELSE Head(apps).url \o RelatedFields(Tail(apps))

RECURSIVE UrlFields(_)
UrlFields(records) ==
    IF records = <<>> THEN <<>> ELSE <<Head(records).url>> \o UrlFields(Tail(records))

RECURSIVE SrcFields(_)
SrcFields(images) ==
    IF images = <<>> THEN <<>> ELSE <<Head(images).src>> \o SrcFields(Tail(images))

RECURSIVE ShortcutFields(_)
ShortcutFields(shortcuts) ==
    IF shortcuts = <<>> THEN <<>>
    ELSE <<Head(shortcuts).url>> \o SrcFields(Head(shortcuts).icons)
         \o ShortcutFields(Tail(shortcuts))

ShareFields(share_target) ==
    IF share_target = <<>> THEN <<>> ELSE <<share_target[1].action>>

Fields(m) ==
    <<m.start_url, m.scope>> \o RelatedFields(m.related_applications)
    \o UrlFields(m.protocol_handlers) \o ShortcutFields(m.shortcuts)
    \o ShareFields(m.share_target) \o SrcFields(m.icons) \o SrcFields(m.screenshots)

\* the fields that must lie within the scope, in the order of the checks
ScopedFields(m) ==
    UrlFields(m.protocol_handlers) \o UrlFields(m.shortcuts) \o ShareFields(m.share_target)

AllAbsolute(m) == \A i \in DOMAIN Fields(m) : Fields(m)[i].tag = "Absolute"

Returned == calls > 0
document_url == args[1]
manifest_url == args[2]

\* the call resolved every URL field
Resolved == Returned /\ AllAbsolute(manifest)

(***************************************************************************)
(* C1. Whenever process returns success, every tri-state URL field of the  *)
(* document is Absolute.                                                   *)
(***************************************************************************)
C1_SuccessAllAbsolute ==
    result = Ok => AllAbsolute(manifest)

\* a successful call on a document with a related application, an icon and
\* relative and unset fields
C1_Witness ==
    /\ result = Ok
    /\ before.start_url.tag = "Relative"
    /\ before.scope = Unknown
    /\ Len(before.related_applications) = 1
    /\ Len(before.icons) = 1
    /\ \A i \in 3..Len(Fields(before)) : Fields(before)[i].tag = "Relative"

(***************************************************************************)
(* C2. Every URL field that holds Relative(ref) before a successful        *)
(* process(document_url, manifest_url) holds                               *)
(* Absolute(join(manifest_url, ref)) afterwards.                           *)
(***************************************************************************)
C2_RelativeJoinsManifestUrl ==
    result = Ok =>
        /\ Len(Fields(manifest)) = Len(Fields(before))
        /\ \A i \in DOMAIN Fields(before) :
              Fields(before)[i].tag = "Relative" =>
                 /\ join(manifest_url, Fields(before)[i].ref).ok
                 /\ Fields(manifest)[i] =
                       Absolute(join(manifest_url, Fields(before)[i].ref).url)

\* a successful call whose relative start_url, shortcut URL and shortcut icon
\* would resolve differently against the document URL
C2_Witness ==
    /\ result = Ok
    /\ before.start_url.tag = "Relative"
    /\ join(document_url, before.start_url.ref) # join(manifest_url, before.start_url.ref)
    /\ Len(before.shortcuts) = 1
    /\ before.shortcuts[1].url.tag = "Relative"
    /\ Len(before.shortcuts[1].icons) = 1
    /\ before.shortcuts[1].icons[1].src.tag = "Relative"

(***************************************************************************)
(* C3. If start_url is Unknown, then after process(doc_url, man_url)       *)
(* returns, with success or with an error, start_url is Absolute(doc_url). *)
(***************************************************************************)
C3_UnknownStartIsDocumentUrl ==
    (Returned /\ before.start_url = Unknown) =>
        manifest.start_url = Absolute(document_url)

\* a call that fails on a document with an unset start_url
C3_Witness ==
    /\ Returned
    /\ before.start_url = Unknown
    /\ result.kind = "InvalidUnknownUrl"
    /\ document_url # manifest_url

(***************************************************************************)
(* C4. If scope is Unknown and the start URL has been resolved to          *)
(* Absolute(s), process sets scope to Absolute(join(s, ".")); when that    *)
(* join has no result (s cannot be a base), scope stays Unknown and the    *)
(* call returns the join's error.                                          *)
(***************************************************************************)
C4_UnknownScopeIsStartDirectory ==
    (Returned /\ before.scope = Unknown /\ manifest.start_url.tag = "Absolute") =>
        LET j == join(manifest.start_url.url, <<".">>)
        IN IF j.ok THEN manifest.scope = Absolute(j.url)
                   ELSE manifest.scope = Unknown /\ result = UrlParsing(j.err)

\* the default scope of an absolute start_url, which is neither the directory
\* of the document URL nor that of the manifest URL
C4_Witness ==
    /\ result = Ok
    /\ before.scope = Unknown
    /\ before.start_url.tag = "Absolute"
    /\ manifest.scope.tag = "Absolute"
    /\ join(document_url, <<".">>).ok
    /\ manifest.scope.url # join(document_url, <<".">>).url
    /\ manifest.scope.url # join(manifest_url, <<".">>).url

(***************************************************************************)
(* C5. If a related application's present URL, a protocol handler URL, a   *)
(* shortcut URL, a shortcut icon src, the share target action, an icon src *)
(* or a screenshot src is Unknown, process never returns success, and it   *)
(* returns InvalidUnknownUrl whenever no field before the first such field *)
(* fails to resolve.  A related application without a URL stays without    *)
(* one and is no error: InvalidUnknownUrl is returned only for a field     *)
(* that holds Unknown.                                                     *)
(***************************************************************************)
UnknownResources(F) == { i \in 3..Len(F) : F[i] = Unknown }

Least(S) == CHOOSE i \in S : \A j \in S : i <= j

\* field i of the document at entry cannot be resolved: its reference does
\* not join to the manifest URL, or it is the unset scope and "." does not
\* join to the resolved start URL
FailsToResolve(i) ==
    LET F == Fields(before)
    IN \/ F[i].tag = "Relative" /\ ~join(manifest_url, F[i].ref).ok
       \/ /\ i = 2
          /\ F[2] = Unknown
          /\ manifest.start_url.tag = "Absolute"
          /\ ~join(manifest.start_url.url, <<".">>).ok

C5_UnknownResourceUrlIsError ==
    Returned =>
        /\ UnknownResources(Fields(before)) # {} =>
              /\ result # Ok
              /\ (\A j \in 1..(Least(UnknownResources(Fields(before))) - 1) :
                     ~FailsToResolve(j))
                 => result = InvalidUnknownUrl
        /\ result = InvalidUnknownUrl => UnknownResources(Fields(before)) # {}
        /\ Len(manifest.related_applications) = Len(before.related_applications)
        /\ \A i \in DOMAIN before.related_applications :
              before.related_applications[i].url = None
                 => manifest.related_applications[i].url = None

\* InvalidUnknownUrl for an unset screenshot src that follows a related
\* application without a URL
C5_Witness ==
    /\ result = InvalidUnknownUrl
    /\ Len(before.related_applications) = 1
    /\ before.related_applications[1].url = None
    /\ Len(before.screenshots) = 1
    /\ before.screenshots[1].src = Unknown
    /\ before.start_url.tag = "Relative"

(***************************************************************************)
(* C6. Given that every URL field resolves, process returns                *)
(* NotSameOrigin{url1 = resolved start URL, url2 = document_url} if and    *)
(* only if the resolved start URL differs from document_url in scheme,     *)
(* host or port.                                                           *)
(***************************************************************************)
SchemeHostPortDiffer(a, b) ==
    a.scheme # b.scheme \/ a.host # b.host \/ a.port # b.port

C6_NotSameOriginIffTupleDiffers ==
    Resolved =>
        ( result = NotSameOrigin(manifest.start_url.url, document_url)
          <=> SchemeHostPortDiffer(manifest.start_url.url, document_url) )

(***************************************************************************)
(* C7. Given that every URL field resolves and the origin check of the     *)
(* start URL passes, process returns NotWithinScope{url = resolved start   *)
(* URL, scope = resolved scope} if and only if the start URL's origin      *)
(* differs from the scope's origin or the start URL's path does not begin  *)
(* with the scope's path.                                                  *)
(***************************************************************************)
IsPrefix(p, s) ==
    /\ Len(p) <= Len(s)
    /\ \A i \in 1..Len(p) : p[i] = s[i]

\* the URL has another origin than the scope, or its path does not begin
\* with the scope's path
Outside(url, scope) ==
    SchemeHostPortDiffer(url, scope) \/ ~IsPrefix(scope.path, url.path)

OutsideScoped(m) ==
    { i \in DOMAIN ScopedFields(m) : Outside(ScopedFields(m)[i].url, m.scope.url) }

C8_FirstScopedResourceOutside ==
    ( /\ Resolved
      /\ result.kind # "NotSameOrigin"
      /\ ~Outside(manifest.start_url.url, manifest.scope.url) ) =>
        /\ result.kind = "NotWithinScope" <=> OutsideScoped(manifest) # {}
        /\ OutsideScoped(manifest) # {} =>
              result = NotWithinScope(
                           ScopedFields(manifest)[Least(OutsideScoped(manifest))].url,
                           manifest.scope.url)

\* two protocol handlers outside the scope, with different URLs
C8_Witness ==
    /\ Resolved
    /\ result.kind = "NotWithinScope"
    /\ Len(manifest.protocol_handlers) = 2
    /\ OutsideScoped(manifest) = {1, 2}
    /\ manifest.protocol_handlers[1].url # manifest.protocol_handlers[2].url
    /\ result.url = manifest.protocol_handlers[1].url.url

(***************************************************************************)
(* C9. As claimed: for the start URL, every protocol handler URL, every    *)
(* shortcut URL and the share target action, if the resolved URL's origin  *)
(* differs from the scope's or the URL's path is not a prefix of the       *)
(* scope's path, process returns NotWithinScope naming that URL and the    *)
(* scope; a document is accepted only if each such URL's path is a prefix  *)
(* of the scope's path.                                                    *)
(***************************************************************************)
Restricted(m) == <<m.start_url>> \o ScopedFields(m)

C9_UrlPathPrefixOfScopePath ==
    Resolved =>
        /\ \A i \in DOMAIN Restricted(manifest) :
              ( \/ SchemeHostPortDiffer(Restricted(manifest)[i].url, manifest.scope.url)
                \/ ~IsPrefix(Restricted(manifest)[i].url.path, manifest.scope.url.path) )
              => result = NotWithinScope(Restricted(manifest)[i].url, manifest.scope.url)
        /\ result = Ok =>
              \A i \in DOMAIN Restricted(manifest) :
                 IsPrefix(Restricted(manifest)[i].url.path, manifest.scope.url.path)

(***************************************************************************)
(* C9, amended. When every URL field resolves and the origin check of the  *)
(* start URL passes: if one of these URLs has another origin than the      *)
(* scope or a path that does not begin with the scope's path, process      *)
(* returns NotWithinScope naming the first such URL (start URL, protocol   *)
(* handlers, shortcuts, share target) and the scope; a document is         *)
(* accepted only if each such URL has the scope's origin and a path that   *)
(* begins with the scope's path.                                           *)
(***************************************************************************)
OutsideRestricted(m) ==
    { i \in DOMAIN Restricted(m) : Outside(Restricted(m)[i].url, m.scope.url) }

C9_ScopePathPrefixOfUrlPath ==
    Resolved =>
        /\ (result.kind # "NotSameOrigin" /\ OutsideRestricted(manifest) # {}) =>
              result = NotWithinScope(
                           Restricted(manifest)[Least(OutsideRestricted(manifest))].url,
                           manifest.scope.url)
        /\ result = Ok => OutsideRestricted(manifest) = {}

\* an accepted document whose shortcut URL has a path that begins with the
\* scope's path and is no prefix of it
C9_Witness ==
    /\ result = Ok
    /\ Len(manifest.shortcuts) = 1
    /\ Len(manifest.share_target) = 1
    /\ IsPrefix(manifest.scope.url.path, manifest.shortcuts[1].url.url.path)
    /\ ~IsPrefix(manifest.shortcuts[1].url.url.path, manifest.scope.url.path)

(***************************************************************************)
(* C10. Icon src, shortcut icon src, screenshot src and related            *)
(* application URLs are never compared with an origin or with the scope:   *)
(* when every field resolves and the start URL, the protocol handler URLs, *)
(* the shortcut URLs and the share target action have the required origin  *)
(* and lie within the scope, process succeeds whatever those fields hold,  *)
(* and changing one of them from a value that resolves to another value    *)
(* that resolves never changes whether process returns NotSameOrigin or    *)
(* NotWithinScope.                                                         *)
(***************************************************************************)
Resolves(u) ==
    \/ u.tag = "Absolute"
    \/ u.tag = "Relative" /\ join(manifest_url, u.ref).ok

\* values an exempt field is changed to
OtherVals ==
    { Relative(<<"a">>), Relative(<<"/", "b">>),
      Absolute(Https(<<"b">>, <<"/", "b">>)),
      Absolute(Https(<<"a">>, <<"/", "a", "/", "b">>)) }

\* the documents that differ from m in one exempt field, which resolves in m
\* and holds v instead
ExemptVariants(m, v) ==
    { [m EXCEPT !.related_applications[i].url = Some(v)] :
        i \in { k \in DOMAIN m.related_applications :
                  /\ m.related_applications[k].url # None
                  /\ Resolves(m.related_applications[k].url[1]) } }
    \cup { [m EXCEPT !.icons[i].src = v] :
             i \in { k \in DOMAIN m.icons : Resolves(m.icons[k].src) } }
    \cup { [m EXCEPT !.screenshots[i].src = v] :
             i \in { k \in DOMAIN m.screenshots : Resolves(m.screenshots[k].src) } }
    \cup UNION { { [m EXCEPT !.shortcuts[i].icons[j].src = v] :
                     j \in { k \in DOMAIN m.shortcuts[i].icons :
                               Resolves(m.shortcuts[i].icons[k].src) } } :
                 i \in DOMAIN m.shortcuts }

Failing ==
    { i \in DOMAIN Fields(before) :
        FailsToResolve(i) \/ i \in UnknownResources(Fields(before)) }

\* the error of the resolution of field i
ResolutionError(i) ==
    IF Fields(before)[i].tag = "Relative"
    THEN UrlParsing(join(manifest_url, Fields(before)[i].ref).err)
    ELSE IF i = 2
    THEN UrlParsing(join(manifest.start_url.url, <<".">>).err)
    ELSE InvalidUnknownUrl

\* the outcome of the checks of a document whose fields are all resolved
CheckOutcome(m) ==
    IF origin_ne(m.start_url.url, document_url)
    THEN NotSameOrigin(m.start_url.url, document_url)
    ELSE IF OutsideRestricted(m) # {}
    THEN NotWithinScope(Restricted(m)[Least(OutsideRestricted(m))].url, m.scope.url)
    ELSE Ok

C11_EarliestFailingStep ==
    Returned =>
        result = IF Failing # {} THEN ResolutionError(Least(Failing))
                 ELSE CheckOutcome(manifest)

\* a document whose shortcut URL is unset and whose icon src does not join,
\* with a start URL of another origin than the document URL and outside the
\* scope
C11_Witness ==
    /\ result = InvalidUnknownUrl
    /\ Len(before.shortcuts) = 1
    /\ before.shortcuts[1].url = Unknown
    /\ Len(before.icons) = 1
    /\ before.icons[1].src = Relative(BadRef)
    /\ manifest.scope.tag = "Absolute"
    /\ origin_ne(manifest.start_url.url, document_url)
    /\ Outside(manifest.start_url.url, manifest.scope.url)

(***************************************************************************)
(* C12. Idempotence: when process(document_url, manifest_url) has          *)
(* succeeded on a document, process with the same two URLs on the          *)
(* resulting document succeeds too and changes no field of it.             *)
(***************************************************************************)
C12_SecondCallIsNoOp ==
    (Returned /\ result = Ok) =>
        process(manifest, document_url, manifest_url) = [m |-> manifest, r |-> Ok]

\* a second successful call, which left a document with a shortcut and its
\* icon as the first call made it
C12_Witness ==
    /\ calls = 2
    /\ result = Ok
    /\ manifest = before
    /\ Len(manifest.shortcuts) = 1
    /\ Len(manifest.shortcuts[1].icons) = 1
    /\ manifest.start_url # Absolute(document_url)
    /\ manifest.scope.url.path # <<"/">>

(***************************************************************************)
(* C13. Absolute values are terminal: over any sequence of calls on the    *)
(* same document, with any context URLs, successful or not, a field that   *)
(* holds Absolute(u) at the entry of a call holds the same Absolute(u)     *)
(* when the call returns, and a field that a call changes holds an         *)
(* Absolute afterwards: a field is written at most once and never goes     *)
(* back to Relative or Unknown.  No call adds or removes a field.          *)
(***************************************************************************)
C13_AbsoluteIsTerminal ==
    Returned =>
        /\ Len(Fields(manifest)) = Len(Fields(before))
        /\ \A i \in DOMAIN Fields(before) :
              /\ Fields(before)[i].tag = "Absolute"
                    => Fields(manifest)[i] = Fields(before)[i]
              /\ Fields(manifest)[i] # Fields(before)[i]
                    => Fields(manifest)[i].tag = "Absolute"

\* a second, failing call with another document URL than the first, which
\* had made the start URL its own document URL, file:///a/b; an icon that
\* the first call resolved stays as well
C13_Witness ==
    /\ calls = 2
    /\ result # Ok
    /\ before.start_url.tag = "Absolute"
    /\ before.start_url.url.scheme = "file"
    /\ document_url.scheme = "https"
    /\ manifest.start_url = before.start_url
    /\ Len(manifest.icons) = 1
    /\ manifest.icons[1].src.tag = "Absolute"
    /\ manifest.icons[1].src # Absolute(join(manifest_url, <<"a">>).url)
    /\ manifest.icons[1].src.url.path = <<"/", "a", "/", "a">>

(***************************************************************************)
(* C14. When the join of a Relative field to the manifest URL fails, or    *)
(* the join of "." to the resolved start URL for an unset scope, the call  *)
(* does not succeed and the field keeps its Relative or Unknown value: it  *)
(* is never given a default or another value instead.  When no field       *)
(* before it fails, process returns UrlParsing with the error of that      *)
(* join, and UrlParsing is returned for no other reason.                   *)
(***************************************************************************)
\* the error of the join that fails for field i
JoinError(i) ==
    IF Fields(before)[i].tag = "Relative"
    THEN join(manifest_url, Fields(before)[i].ref).err
    ELSE join(manifest.start_url.url, <<".">>).err

C14_JoinFailureIsUrlParsing ==
    Returned =>
        /\ \A i \in DOMAIN Fields(before) :
              FailsToResolve(i) =>
                 /\ result # Ok
                 /\ Len(Fields(manifest)) = Len(Fields(before))
                 /\ Fields(manifest)[i] = Fields(before)[i]
                 /\ i = Least(Failing) => result = UrlParsing(JoinError(i))
        /\ result.kind = "UrlParsing" =>
              /\ Failing # {}
              /\ FailsToResolve(Least(Failing))

\* a scope that does not join, after a start URL that did
C14_Witness ==
    /\ result = UrlParsing("EmptyHost")
    /\ before.start_url.tag = "Relative"
    /\ manifest.start_url.tag = "Absolute"
    /\ before.scope = Relative(BadRef)
    /\ manifest.scope = Relative(BadRef)
    /\ Len(manifest.icons) = 1
    /\ manifest.icons[1].src.tag = "Relative"

\* an unset scope whose default cannot be derived from the start URL
C14_WitnessDefaultScope ==
    /\ result = UrlParsing("RelativeUrlWithCannotBeABaseBase")
    /\ before.scope = Unknown
    /\ manifest.scope = Unknown
    /\ manifest.start_url.tag = "Absolute"

(***************************************************************************)
(* The text of an absolute URL (url::Url::parse and the URL's string       *)
(* form).  Texts are sequences of one-character strings over the letters   *)
(* of the schemes below, the digits and  : / . ? #  ; they write no user   *)
(* information, hosts made of letters, and no authority after a scheme     *)
(* that is not special.                                                    *)
(***************************************************************************)
Letters == {"a", "b", "d", "e", "f", "h", "i", "l", "p", "s", "t"}

DigitChars == <<"0", "1", "2", "3", "4", "5", "6", "7", "8", "9">>

Digits == { DigitChars[i] : i \in 1..10 }

\* the characters that end a scheme
Delimiters == {":", "/", "?", "#"}

\* schemes whose URLs have an authority and a hierarchical path
SpecialSchemes == {"ftp", "file", "http", "https", "ws", "wss"}

SchemeText(scheme) ==
    CASE scheme = "https" -> <<"h", "t", "t", "p", "s">>
      [] scheme = "http" -> <<"h", "t", "t", "p">>
      [] scheme = "file" -> <<"f", "i", "l", "e">>
      [] scheme = "data" -> <<"d", "a", "t", "a">>

SchemeNames == {"https", "http", "file", "data"}

\* the decimal text of a port
RECURSIVE to_digits(_)
to_digits(n) ==
    IF n < 10 THEN <<DigitChars[n + 1]>>
    ELSE Append(to_digits(n \div 10), DigitChars[(n % 10) + 1])

\* the number written by a text of digits
RECURSIVE parse_port(_, _)
parse_port(s, acc) ==
    IF s = <<>> THEN acc
    ELSE parse_port(Tail(s),
                    10 * acc + (CHOOSE d \in 0..9 : DigitChars[d + 1] = Head(s)))

\* the path of a special URL: never empty, dot segments removed
normalize(p) == Serialize(parse_path(<<>>, Split(SubSeq(p, 2, Len(p)), <<>>, <<>>), 1))

\* to_string, but the port is always written
to_string_with_port(u) ==
    SchemeText(u.scheme) \o <<":">>
    \o (IF u.scheme \in SpecialSchemes
        THEN <<"/", "/">> \o u.host \o <<":">> \o to_digits(u.port)
        ELSE <<>>)
    \o u.path \o u.query \o u.fragment

\* String::from(url): the serialization of the URL; the port is written
\* only when it is not the default of the scheme
to_string(u) ==
    SchemeText(u.scheme) \o <<":">>
    \o (IF u.scheme \in SpecialSchemes
        THEN <<"/", "/">> \o u.host
             \o (IF u.port = DefaultPort(u.scheme) THEN <<>>
                 ELSE <<":">> \o to_digits(u.port))
        ELSE <<>>)
    \o u.path \o u.query \o u.fragment

\* host and port are read: an empty host, and a port that is not a number
\* of 16 bits, are errors
parse_host_port(scheme, hp, ref) ==
    IF hp.head = <<>> THEN JoinErr("EmptyHost")
    ELSE IF \/ \E i \in 2..Len(hp.tail) : hp.tail[i] \notin Digits
            \/ parse_port(SubSeq(hp.tail, 2, Len(hp.tail)), 0) > 65535
    THEN JoinErr("InvalidPort")
    ELSE JoinOk(AbsUrl(scheme, hp.head,
                       IF Len(hp.tail) < 2 THEN DefaultPort(scheme)
                       ELSE parse_port(SubSeq(hp.tail, 2, Len(hp.tail)), 0),
                       normalize(ref.path), ref.query, ref.fragment))

\* the authority runs up to the first of / ? #
parse_authority(scheme, a) ==
    parse_host_port(scheme, cut(a.head, Find(a.head, {":"}, 1)), reference(a.tail))

\* file: two slashes or more are followed by a host, which may be empty;
\* otherwise all is path
parse_file(rest, slashes) ==
    IF slashes >= 2
    THEN JoinOk(AbsUrl("file",
                       cut(SubSeq(rest, 3, Len(rest)),
                           Find(SubSeq(rest, 3, Len(rest)), {"/", "?", "#"}, 1)).head,
                       0,
                       normalize(reference(cut(SubSeq(rest, 3, Len(rest)),
                                     Find(SubSeq(rest, 3, Len(rest)), {"/", "?", "#"}, 1)).tail).path),
                       reference(rest).query, reference(rest).fragment))
    ELSE JoinOk(AbsUrl("file", <<>>, 0,
                       normalize(<<"/">> \o SubSeq(reference(rest).path, slashes + 1,
                                                   Len(reference(rest).path))),
                       reference(rest).query, reference(rest).fragment))

\* a scheme that is not special: a path that starts with a slash is
\* hierarchical, any other is kept as written
parse_non_special(scheme, ref) ==
    JoinOk(AbsUrl(scheme, <<>>, 0,
                  IF ref.path # <<>> /\ Head(ref.path) = "/" THEN normalize(ref.path)
                  ELSE ref.path,
                  ref.query, ref.fragment))

\* what follows "scheme:"; http and https skip every leading slash
parse_after_scheme(scheme, rest) ==
    IF scheme = "file" THEN parse_file(rest, Slashes(rest))
    ELSE IF scheme \in SpecialSchemes
    THEN parse_authority(scheme, cut(SubSeq(rest, Slashes(rest) + 1, Len(rest)),
                                     Find(SubSeq(rest, Slashes(rest) + 1, Len(rest)),
                                          {"/", "?", "#"}, 1)))
    ELSE parse_non_special(scheme, reference(rest))

\* the scheme is a letter followed by scheme characters, up to the first
\* ":"; a text without a scheme is relative, and there is no base
parse_scheme(input, e) ==
    IF \/ e > Len(input)
       \/ input[e] # ":"
       \/ e = 1
       \/ input[1] \notin Letters
    THEN JoinErr("RelativeUrlWithoutBase")
    ELSE parse_after_scheme(CHOOSE n \in SchemeNames : SchemeText(n) = SubSeq(input, 1, e - 1),
                            SubSeq(input, e + 1, Len(input)))

\* url::Url::parse
parse(input) == parse_scheme(input, Find(input, Delimiters, 1))

(***************************************************************************)
(* The conversions of the tri-state Url (src/src/types.rs)                 *)
(***************************************************************************)
\* Result::Ok and Result::Err of a conversion
Success(v) == [ok |-> TRUE, value |-> v]
Failure(e) == [ok |-> FALSE, error |-> e]

NotAbsolute(url) == [kind |-> "NotAbsolute", url |-> url]
NotStringifyable(url) == [kind |-> "NotStringifyable", url |-> url]

\* from_str_match with the empty text taken for an unset URL
from_str_match_empty_unknown(string, parsed) ==
    IF parsed.ok THEN Absolute(parsed.url)
    ELSE IF string = <<>> THEN Unknown
    ELSE Relative(string)

\* match AbsoluteUrl::parse(string) { Ok(url) => .., Err(_) => .. }
from_str_match(string, parsed) ==
    IF parsed.ok THEN Absolute(parsed.url) ELSE Relative(string)

\* <Url as FromStr>::from_str
from_str(string) == Success(from_str_match(string, parse(string)))

\* try_into_string with the unset URL written as the empty string
try_into_string_unknown_empty(url) ==
    CASE url.tag = "Absolute" -> Success(to_string(url.url))
      [] url.tag = "Relative" -> Success(url.ref)
      [] OTHER -> Success(<<>>)

\* <Url as TryInto<String>>::try_into
try_into_string(url) ==
    CASE url.tag = "Absolute" -> Success(to_string(url.url))
      [] url.tag = "Relative" -> Success(url.ref)
      [] OTHER -> Failure(NotStringifyable(url))

\* try_into_absolute with the stored string of a relative URL parsed
try_into_absolute_parses(url) ==
    CASE url.tag = "Absolute" -> Success(url.url)
      [] url.tag = "Relative" /\ parse(url.ref).ok -> Success(parse(url.ref).url)
      [] OTHER -> Failure(NotAbsolute(url))

\* <Url as TryInto<AbsoluteUrl>>::try_into
try_into_absolute(url) ==
    CASE url.tag = "Absolute" -> Success(url.url)
      [] OTHER -> Failure(NotAbsolute(url))

\* the values of the wire format that a URL field takes
JsonString(s) == [json |-> "string", text |-> s]
JsonNull == [json |-> "null"]

\* the derived Serialize of the untagged enum: the content of the variant,
\* and null for the unit variant
serialize(url) ==
    CASE url.tag = "Absolute" -> JsonString(to_string(url.url))
      [] url.tag = "Relative" -> JsonString(url.ref)
      [] OTHER -> JsonNull

\* deserialize_variants with Relative declared before Absolute
deserialize_variants_relative_first(j, parsed) ==
    IF j.json = "string" THEN Relative(j.text)
    ELSE Unknown

\* the variants are tried in the order of their declaration
deserialize_variants(j, parsed) ==
    IF j.json = "string" /\ parsed.ok THEN Absolute(parsed.url)
    ELSE IF j.json = "string" THEN Relative(j.text)
    ELSE Unknown

\* the derived Deserialize of the untagged enum
deserialize(j) ==
    deserialize_variants(j, IF j.json = "string" THEN parse(j.text)
                            ELSE JoinErr("RelativeUrlWithoutBase"))

\* serde_json::to_string(&manifest), as far as start_url and scope go
to_json(m) == [m EXCEPT !.start_url = serialize(@), !.scope = serialize(@)]

\* serde_json::from_str::<WebAppManifest>(json), as far as they go
from_json(j) == [j EXCEPT !.start_url = deserialize(@), !.scope = deserialize(@)]

(***************************************************************************)
(* The texts and values that the conversions are applied to                *)
(***************************************************************************)
Text(scheme, rest) == SchemeText(scheme) \o <<":">> \o rest

\* https://a/a/b, https://a/, http://a/a/b, https://a:8/a/b,
\* https://a/?a#b, file:///a/b and data:a
AbsoluteUrls ==
    { Https(<<"a">>, <<"/", "a", "/", "b">>),
      Https(<<"a">>, <<"/">>),
      AbsUrl("http", <<"a">>, 80, <<"/", "a", "/", "b">>, <<>>, <<>>),
      AbsUrl("https", <<"a">>, 8, <<"/", "a", "/", "b">>, <<>>, <<>>),
      AbsUrl("https", <<"a">>, 443, <<"/">>, <<"?", "a">>, <<"#", "b">>),
      AbsUrl("file", <<>>, 0, <<"/", "a", "/", "b">>, <<>>, <<>>),
      AbsUrl("data", <<>>, 0, <<"a">>, <<>>, <<>>) }

\* texts with a scheme that are not written as the URL's string form:
\* https://a, https://a/a/../b, https://a:443/a, https:a/b, and three that
\* do not parse: https://, https://:8/, https://a:b/
SchemeTexts ==
    { Text("https", <<"/", "/", "a">>),
      Text("https", <<"/", "/", "a", "/", "a", "/", ".", ".", "/", "b">>),
      Text("https", <<"/", "/", "a", ":", "4", "4", "3", "/", "a">>),
      Text("https", <<"a", "/", "b">>),
      Text("https", <<"/", "/">>),
      Text("https", <<"/", "/", ":", "8", "/">>),
      Text("https", <<"/", "/", "a", ":", "b", "/">>) }

\* texts without a scheme: the empty text, b, /a/b, //, ., ?a, #b, https,
\* :a and a/b:a
RelativeTexts ==
    { <<>>, <<"b">>, <<"/", "a", "/", "b">>, BadRef, <<".">>, <<"?", "a">>,
      <<"#", "b">>, SchemeText("https"), <<":", "a">>,
      <<"a", "/", "b", ":", "a">> }

Texts == { to_string(u) : u \in AbsoluteUrls } \cup SchemeTexts \cup RelativeTexts

\* the values of a URL field: unset, a stored string (whatever it holds) and
\* a parsed URL
UrlValues ==
    {Unknown}
    \cup { Relative(s) : s \in {<<>>, <<"b">>, <<".">>, BadRef, <<"?", "a">>,
                                Text("https", <<"/", "/">>),
                                Text("https", <<"/", "/", "a">>),
                                Text("https", <<"/", "/", "a", "/", "a", "/", "b">>)} }
    \cup { Absolute(u) : u \in AbsoluteUrls }

(***************************************************************************)
(* The conversions as a state machine: a document holds any two values in  *)
(* start_url and scope and no resource; it is encoded and decoded again,   *)
(* and the conversions are applied to texts and values.                    *)
(*   conversion  the last conversion: its name, its input and its output   *)
(***************************************************************************)
InitTypes ==
    /\ \E su \in UrlValues, sc \in UrlValues :
          manifest = [start_url |-> su, scope |-> sc, name |-> "app",
                      related_applications |-> <<>>, protocol_handlers |-> <<>>,
                      shortcuts |-> <<>>, share_target |-> <<>>,
                      icons |-> <<>>, screenshots |-> <<>>]
    /\ args = <<>>
    /\ result = NoCall
    /\ before = manifest
    /\ calls = 0
    /\ conversion = NoConversion
    /\ threads = <<>>
    /\ counter = 0

Conversion(op, input, output) == [op |-> op, input |-> input, output |-> output]

\* Url::from_str(string)
FromStr ==
    \E string \in Texts :
        /\ conversion' = Conversion("from_str", string, from_str(string))
        /\ UNCHANGED <<manifest, args, result, before, calls, threads, counter>>

\* let string: Result<String, _> = url.try_into()
TryIntoString ==
    \E url \in UrlValues :
        /\ conversion' = Conversion("try_into_string", url, try_into_string(url))
        /\ UNCHANGED <<manifest, args, result, before, calls, threads, counter>>

\* let absolute: Result<AbsoluteUrl, _> = url.try_into()
TryIntoAbsolute ==
    \E url \in UrlValues :
        /\ conversion' = Conversion("try_into_absolute", url, try_into_absolute(url))
        /\ UNCHANGED <<manifest, args, result, before, calls, threads, counter>>

\* the document is encoded and the result is decoded
Reserialize ==
    \E json \in {to_json(manifest)} :
        /\ manifest' = from_json(json)
        /\ before' = manifest
        /\ conversion' = Conversion("reserialize", manifest, json)
        /\ UNCHANGED <<args, result, calls, threads, counter>>

NextTypes == FromStr \/ TryIntoString \/ TryIntoAbsolute \/ Reserialize

SpecTypes == InitTypes /\ [][NextTypes]_vars

(***************************************************************************)
(* C15  Url parsing from text never fails and never yields Unknown: for    *)
(* every string it yields Absolute(p) when the absolute parse of the       *)
(* string succeeds with p, and Relative of the unmodified string when the  *)
(* absolute parse fails.                                                   *)
(***************************************************************************)
\* C15: from_str returns Ok of a value that is not Unknown: Absolute of the
\* parsed URL when the text parses, Relative of the very text otherwise
C15_FromStrNeverFails ==
    conversion.op = "from_str" =>
        /\ conversion.output.ok
        /\ conversion.output.value # Unknown
        /\ parse(conversion.input).ok =>
              conversion.output.value = Absolute(parse(conversion.input).url)
        /\ ~parse(conversion.input).ok =>
              conversion.output.value = Relative(conversion.input)

\* the text https://a parses: the value is the URL https://a/, whose string
\* form is not the text
C15_Witness ==
    /\ conversion.op = "from_str"
    /\ conversion.input = Text("https", <<"/", "/", "a">>)
    /\ conversion.output = Success(Absolute(Https(<<"a">>, <<"/">>)))
    /\ to_string(conversion.output.value.url) # conversion.input

\* the text https:// has a scheme and does not parse: it is kept as written
C15_WitnessKept ==
    /\ conversion.op = "from_str"
    /\ conversion.input = Text("https", <<"/", "/">>)
    /\ conversion.output = Success(Relative(conversion.input))

(***************************************************************************)
(* C16  Converting a tri-state URL to text succeeds exactly for Absolute   *)
(* and Relative: Absolute yields the string form of its URL, Relative its  *)
(* stored string unchanged, Unknown fails with NotStringifyable carrying   *)
(* the Unknown value.                                                      *)
(***************************************************************************)
\* C16: the conversion to text succeeds exactly for Absolute and Relative;
\* the text of an Absolute is the string form of its URL, which parses back
\* to that URL; the text of a Relative is its stored string; Unknown fails
\* with NotStringifyable that carries Unknown
C16_IntoString ==
    conversion.op = "try_into_string" =>
        /\ conversion.output.ok <=> conversion.input.tag \in {"Absolute", "Relative"}
        /\ conversion.input.tag = "Absolute" =>
              /\ conversion.output.value = to_string(conversion.input.url)
              /\ parse(conversion.output.value) = JoinOk(conversion.input.url)
        /\ conversion.input.tag = "Relative" =>
              conversion.output.value = conversion.input.ref
        /\ conversion.input.tag = "Unknown" =>
              conversion.output.error = NotStringifyable(Unknown)

\* the unset URL was converted and the conversion failed
C16_Witness ==
    /\ conversion.op = "try_into_string"
    /\ conversion.input = Unknown
    /\ ~conversion.output.ok
    /\ conversion.output.error.kind = "NotStringifyable"

\* https://a:8/a/b was converted: the port is written
C16_WitnessPort ==
    /\ conversion.op = "try_into_string"
    /\ conversion.input = Absolute(AbsUrl("https", <<"a">>, 8, <<"/", "a", "/", "b">>, <<>>, <<>>))
    /\ conversion.output = Success(Text("https", <<"/", "/", "a", ":", "8", "/", "a", "/", "b">>))

(***************************************************************************)
(* C17  Converting a tri-state URL to an absolute URL succeeds exactly for *)
(* Absolute, yielding its payload unchanged; for Relative and Unknown it   *)
(* fails with NotAbsolute carrying the original value, and resolves        *)
(* nothing.                                                                *)
(***************************************************************************)
\* C17: the conversion to an absolute URL succeeds exactly for Absolute and
\* yields its URL; for Relative and Unknown it fails with NotAbsolute that
\* carries the converted value, whatever the stored string holds
C17_IntoAbsolute ==
    conversion.op = "try_into_absolute" =>
        /\ conversion.output.ok <=> conversion.input.tag = "Absolute"
        /\ conversion.input.tag = "Absolute" =>
              conversion.output.value = conversion.input.url
        /\ conversion.input.tag # "Absolute" =>
              conversion.output.error = NotAbsolute(conversion.input)

\* a Relative whose stored string is the text of an absolute URL was
\* converted: the conversion failed and carries the value
C17_Witness ==
    /\ conversion.op = "try_into_absolute"
    /\ conversion.input.tag = "Relative"
    /\ parse(conversion.input.ref).ok
    /\ conversion.output = Failure(NotAbsolute(conversion.input))

(***************************************************************************)
(* C18  Codec round trip: for every value held in start_url or scope,      *)
(* encoding the manifest and decoding the result yields an equal field;    *)
(* Unknown encodes as null and every string decodes through parse.         *)
(***************************************************************************)
UrlFieldNames == {"start_url", "scope"}

\* the stored string of a Relative is the text of an absolute URL
HoldsAbsoluteText(url) == url.tag = "Relative" /\ parse(url.ref).ok

\* C18 as claimed: after the document is encoded and decoded, start_url and
\* scope equal what they were, whatever value they held, and a field is
\* encoded as null exactly when it is Unknown
C18_RoundTrip ==
    conversion.op = "reserialize" =>
        \A f \in UrlFieldNames :
            /\ manifest[f] = before[f]
            /\ conversion.output[f] = JsonNull <=> before[f] = Unknown

\* C18 amended: after the document is encoded and decoded, a start_url or
\* scope that was Absolute, Unknown, or a Relative whose stored string does
\* not parse as an absolute URL equals what it was, and a field is encoded
\* as null exactly when it is Unknown
C18_RoundTripUnlessAbsoluteText ==
    conversion.op = "reserialize" =>
        \A f \in UrlFieldNames :
            /\ ~HoldsAbsoluteText(before[f]) => manifest[f] = before[f]
            /\ conversion.output[f] = JsonNull <=> before[f] = Unknown

\* a document with the start_url https://a:8/a/b and the scope Relative of
\* the text https://, which has a scheme and does not parse, went through
\* the codec and is as it was
C18_Witness ==
    /\ conversion.op = "reserialize"
    /\ before.start_url = Absolute(AbsUrl("https", <<"a">>, 8, <<"/", "a", "/", "b">>, <<>>, <<>>))
    /\ before.scope = Relative(Text("https", <<"/", "/">>))
    /\ conversion.output.start_url = JsonString(Text("https", <<"/", "/", "a", ":", "8", "/", "a", "/", "b">>))
    /\ manifest = before

\* an unset scope went through the codec as null
C18_WitnessUnknown ==
    /\ conversion.op = "reserialize"
    /\ before.scope = Unknown
    /\ conversion.output.scope = JsonNull
    /\ manifest.scope = Unknown
    /\ before.start_url = Relative(<<"b">>)
    /\ manifest.start_url = before.start_url

\* a Relative that holds the text https://a came back as the URL https://a/
C18_WitnessLost ==
    /\ conversion.op = "reserialize"
    /\ before.start_url = Relative(Text("https", <<"/", "/", "a">>))
    /\ manifest.start_url = Absolute(Https(<<"a">>, <<"/">>))

(***************************************************************************)
(* Calls that run side by side: every thread owns a document and calls     *)
(* process on it once; the steps of the calls interleave in any order.     *)
(*   threads  per thread: the document and the outcome so far (st), the    *)
(*            number of steps taken (pc), the arguments of the call and    *)
(*            the document at the entry of the call                        *)
(*   counter  the number of opaque origins made so far: Url::origin draws  *)
(*            the identity of an opaque origin from a counter that all     *)
(*            threads share, which is the only state the calls share       *)
(* Of the URLs of these documents only the document URL data:a and a start *)
(* URL taken from it have an opaque origin.                                *)
(***************************************************************************)
\* number of threads
NThreads == 2

Document(start_url, scope, shortcuts, icons) ==
    [start_url |-> start_url, scope |-> scope, name |-> "app",
     related_applications |-> <<>>, protocol_handlers |-> <<>>,
     shortcuts |-> shortcuts, share_target |-> <<>>,
     icons |-> icons, screenshots |-> <<>>]

Image(src) == [src |-> src, label |-> "image"]

\* the default document; one with relative URLs all over; one whose icon
\* does not resolve; one whose start URL is of another origin
ThreadDocuments ==
    { Document(Unknown, Unknown, <<>>, <<>>),
      Document(Relative(<<"b">>), Relative(<<".">>),
               <<[name |-> "shortcut", url |-> Relative(<<"a">>),
                  icons |-> <<Image(Relative(<<"a">>))>>]>>,
               <<>>),
      Document(Unknown, Unknown, <<>>, <<Image(Relative(BadRef))>>),
      Document(Absolute(Https(<<"b">>, <<"/", "a", "/", "b">>)), Unknown, <<>>,
               <<Image(Relative(<<"a">>))>>) }

\* <<document_url, manifest_url>>: https://a/a/b with https://a/a/b/a,
\* and data:a with https://b/a/a
ThreadUrls ==
    { <<Https(<<"a">>, <<"/", "a", "/", "b">>), Https(<<"a">>, <<"/", "a", "/", "b", "/", "a">>)>>,
      <<AbsUrl("data", <<>>, 0, <<"a">>, <<>>, <<>>), Https(<<"b">>, <<"/", "a", "/", "a">>)>> }

Thread(document, urls) ==
    [st |-> [m |-> document, r |-> Running], pc |-> 0,
     document_url |-> urls[1], manifest_url |-> urls[2], entry |-> document]

InitThreads ==
    /\ threads \in [1..NThreads -> { Thread(d, u) : d \in ThreadDocuments, u \in ThreadUrls }]
    /\ counter = 0
    /\ manifest = Document(Unknown, Unknown, <<>>, <<>>)
    /\ args = <<>>
    /\ result = NoCall
    /\ before = manifest
    /\ calls = 0
    /\ conversion = NoConversion

\* the next step of a call, in the order of lib.rs 559-723
step(th) ==
    CASE th.pc = 0 -> process_start_url(th.st.m, th.document_url, th.manifest_url)
      [] th.pc = 1 -> scope_step(th.st, th.manifest_url)
      [] th.pc = 2 -> related_applications_step(th.st, th.manifest_url)
      [] th.pc = 3 -> protocol_handlers_step(th.st, th.manifest_url)
      [] th.pc = 4 -> shortcuts_step(th.st, th.manifest_url)
      [] th.pc = 5 -> share_target_step(th.st, th.manifest_url)
      [] th.pc = 6 -> icons_step(th.st, th.manifest_url)
      [] th.pc = 7 -> screenshots_step(th.st, th.manifest_url)
      [] th.pc = 8 -> validate_step(th.st, th.document_url)

\* the opaque origins that the step makes: start_url.origin() and
\* document_url.origin() in the first check of the validation
new_opaque(th) ==
    IF th.pc = 8
    THEN (IF th.st.m.start_url.url.scheme \in TupleSchemes THEN 0 ELSE 1)
         + (IF th.document_url.scheme \in TupleSchemes THEN 0 ELSE 1)
    ELSE 0

\* &mut self with every thread on the document of the first
receiver_first(t) == 1

\* &mut self of the call of thread t: the document that the thread owns
receiver(t) == t

\* thread t takes the next step of its call; a call that returned takes none
Step(t) ==
    /\ threads[t].st.r = Running
    /\ threads' = [threads EXCEPT ![receiver(t)].st = step(threads[t]),
                                  ![t].pc = @ + 1]
    /\ counter' = counter + new_opaque(threads[t])
    /\ UNCHANGED <<manifest, args, result, before, calls, conversion>>

NextThreads == \E t \in 1..NThreads : Step(t)

SpecThreads == InitThreads /\ [][NextThreads]_vars

(***************************************************************************)
(* C19  Concurrent process calls that each operate on a distinct document  *)
(* do not interfere: under every interleaving of their steps, each call's  *)
(* result and the final state of its document are the same as when that    *)
(* call runs alone.                                                        *)
(***************************************************************************)
\* C19: whenever the call of a thread has returned, whatever the other
\* threads have done and do, its result and its document are what process
\* makes of the document at the entry of the call when called alone
C19_NoInterference ==
    \A t \in DOMAIN threads :
        threads[t].st.r # Running =>
            threads[t].st = process(threads[t].entry, threads[t].document_url,
                                    threads[t].manifest_url)

\* the call of the first thread has returned Ok and has resolved the URLs
\* of its document, while the call of the second, on a default document
\* with the other URLs, is half way: it has set its start URL from its own
\* document URL, and an opaque origin has been made
C19_Witness ==
    /\ Len(threads) = NThreads
    /\ threads[1].st.r = Ok
    /\ threads[1].st.m # threads[1].entry
    /\ Len(threads[1].st.m.shortcuts) = 1
    /\ threads[1].st.m.shortcuts[1].icons[1].src.tag = "Absolute"
    /\ threads[2].st.r = Running
    /\ threads[2].pc = 1
    /\ threads[2].entry.start_url = Unknown
    /\ threads[2].st.m.start_url = Absolute(threads[2].document_url)
    /\ threads[2].document_url # threads[1].document_url

\* both calls have returned, one with Ok and one with an error, and opaque
\* origins were made by the second
C19_WitnessBothReturned ==
    /\ Len(threads) = NThreads
    /\ threads[1].st.r = Ok
    /\ threads[2].st.r.kind = "NotSameOrigin"
    /\ counter > 0

(***************************************************************************)
(* Documents for the comparison of paths: the start URL, the scope and at  *)
(* most one protocol handler, shortcut or share target hold URLs of the    *)
(* origin https://a whose paths are /ab, /a, /a/, /a/b, /ab/a and /b, so   *)
(* that a path may extend another in the middle of a segment, or differ    *)
(* from it by a trailing slash only.                                       *)
(***************************************************************************)
PrefixPaths ==
    { <<"/", "a", "b">>, <<"/", "a">>, <<"/", "a", "/">>, <<"/", "a", "/", "b">>,
      <<"/", "a", "b", "/", "a">>, <<"/", "b">> }

PrefixUrlVals == { Absolute(Https(<<"a">>, p)) : p \in PrefixPaths }

PrefixScopeVals ==
    { Absolute(Https(<<"a">>, p)) :
        p \in { <<"/", "a">>, <<"/", "a", "/">>, <<"/", "a", "b">> } }

PrefixDocuments ==
    UNION { { Document(su, sc, <<>>, <<>>) }
            \cup { [Document(su, sc, <<>>, <<>>) EXCEPT
                      !.protocol_handlers = <<[protocol |-> "mailto", url |-> u]>>] :
                   u \in PrefixUrlVals }
            \cup { Document(su, sc, <<[name |-> "shortcut", url |-> u, icons |-> <<>>]>>, <<>>) :
                   u \in PrefixUrlVals }
            \cup { [Document(su, sc, <<>>, <<>>) EXCEPT
                      !.share_target = Some([action |-> u, method |-> "GET"])] :
                   u \in PrefixUrlVals } :
            su \in PrefixUrlVals, sc \in PrefixScopeVals }

InitPrefix ==
    /\ manifest \in PrefixDocuments
    /\ args = <<>>
    /\ result = NoCall
    /\ before = manifest
    /\ calls = 0
    /\ conversion = NoConversion
    /\ threads = <<>>
    /\ counter = 0

SpecPrefix == InitPrefix /\ [][Next]_vars

(***************************************************************************)
(* C21  Scope containment compares paths by literal string prefix, not by  *)
(* path segments and without normalizing trailing slashes: a same-origin   *)
(* URL with path /scope/x is accepted under a scope with path /sco, and a  *)
(* same-origin URL with path /app is rejected under a scope with path      *)
(* /app/.                                                                  *)
(***************************************************************************)
\* the segments of a path, without an empty last segment
Segments(p) ==
    IF p[Len(p)] = "/" THEN Front(Split(Tail(p), <<>>, <<>>))
    ELSE Split(Tail(p), <<>>, <<>>)

\* every segment of the scope's path is a segment of the URL's path, in
\* the same place
WithinBySegments(url, scope) ==
    /\ Len(Segments(scope.path)) <= Len(Segments(url.path))
    /\ \A i \in 1..Len(Segments(scope.path)) :
          Segments(url.path)[i] = Segments(scope.path)[i]

\* C21: when every field is resolved, the origin check of the start URL
\* passes and the restricted URLs have the origin of the scope, process
\* succeeds as soon as the characters of the scope's path are the first
\* characters of every restricted URL's path, wherever the segments end,
\* and returns NotWithinScope when a restricted URL's path is the scope's
\* path without its trailing slash
C21_LiteralStringPrefix ==
    ( /\ Resolved
      /\ ~origin_ne(manifest.start_url.url, document_url)
      /\ \A i \in DOMAIN Restricted(manifest) :
            ~SchemeHostPortDiffer(Restricted(manifest)[i].url, manifest.scope.url) )
    => /\ (\A i \in DOMAIN Restricted(manifest) :
              IsPrefix(manifest.scope.url.path, Restricted(manifest)[i].url.path))
          => result = Ok
       /\ (\E i \in DOMAIN Restricted(manifest) :
              manifest.scope.url.path = Append(Restricted(manifest)[i].url.path, "/"))
          => result.kind = "NotWithinScope"

\* accepted: the scope's path is /a, the start URL's path /ab/a and the
\* shortcut's path /ab, neither of which has the segment a
C21_Witness ==
    /\ result = Ok
    /\ manifest.scope.url.path = <<"/", "a">>
    /\ manifest.start_url.url.path = <<"/", "a", "b", "/", "a">>
    /\ Len(manifest.shortcuts) = 1
    /\ manifest.shortcuts[1].url.url.path = <<"/", "a", "b">>
    /\ ~WithinBySegments(manifest.start_url.url, manifest.scope.url)
    /\ ~WithinBySegments(manifest.shortcuts[1].url.url, manifest.scope.url)

\* rejected: the scope's path is /a/ and the protocol handler's path /a
C21_WitnessRejected ==
    /\ Returned
    /\ manifest.scope.url.path = <<"/", "a", "/">>
    /\ manifest.start_url.url.path = <<"/", "a", "/", "b">>
    /\ Len(manifest.protocol_handlers) = 1
    /\ manifest.protocol_handlers[1].url.url.path = <<"/", "a">>
    /\ WithinBySegments(manifest.protocol_handlers[1].url.url, manifest.scope.url)
    /\ result = NotWithinScope(manifest.protocol_handlers[1].url.url, manifest.scope.url)

(***************************************************************************)
(* The enumerated fields (src/src/types.rs 81-316) and their decoding from *)
(* a token.  Direction, Display and Orientation derive Deserialize with a  *)
(* serde name per variant; ShareTargetMethod, ShareTargetEnctype,          *)
(* ImageSize and ImagePurpose derive FromStr (parse_display), which        *)
(* matches the whole token against the pattern of each variant.            *)
(***************************************************************************)
Uppercase ==
    <<"A", "B", "C", "D", "E", "F", "G", "H", "I", "J", "K", "L", "M",
      "N", "O", "P", "Q", "R", "S", "T", "U", "V", "W", "X", "Y", "Z">>

Lowercase ==
    <<"a", "b", "c", "d", "e", "f", "g", "h", "i", "j", "k", "l", "m",
      "n", "o", "p", "q", "r", "s", "t", "u", "v", "w", "x", "y", "z">>

\* char::to_ascii_lowercase and char::to_ascii_uppercase
to_ascii_lowercase(c) ==
    IF \E i \in 1..26 : Uppercase[i] = c
    THEN Lowercase[CHOOSE i \in 1..26 : Uppercase[i] = c]
    ELSE c

to_ascii_uppercase(c) ==
    IF \E i \in 1..26 : Lowercase[i] = c
    THEN Uppercase[CHOOSE i \in 1..26 : Lowercase[i] = c]
    ELSE c

\* str::to_ascii_lowercase and str::to_ascii_uppercase
lowercase(s) == [i \in 1..Len(s) |-> to_ascii_lowercase(s[i])]
uppercase(s) == [i \in 1..Len(s) |-> to_ascii_uppercase(s[i])]

\* enum Direction: the serde name of each variant
Direction ==
    { [variant |-> "Auto",
       token |-> <<"a", "u", "t", "o">>],
      [variant |-> "Ltr",
       token |-> <<"l", "t", "r">>],
      [variant |-> "Rtl",
       token |-> <<"r", "t", "l">>] }

\* enum Display: the serde name of each variant
Display ==
    { [variant |-> "Browser",
       token |-> <<"b", "r", "o", "w", "s", "e", "r">>],
      [variant |-> "Fullscreen",
       token |-> <<"f", "u", "l", "l", "s", "c", "r", "e", "e", "n">>],
      [variant |-> "Standalone",
       token |-> <<"s", "t", "a", "n", "d", "a", "l", "o", "n", "e">>],
      [variant |-> "MinimalUi",
       token |-> <<"m", "i", "n", "i", "m", "a", "l", "-", "u", "i">>] }

\* enum Orientation: the serde name of each variant
Orientation ==
    { [variant |-> "Any",
       token |-> <<"a", "n", "y">>],
      [variant |-> "Natural",
       token |-> <<"n", "a", "t", "u", "r", "a", "l">>],
      [variant |-> "Landscape",
       token |-> <<"l", "a", "n", "d", "s", "c", "a", "p", "e">>],
      [variant |-> "Portrait",
       token |-> <<"p", "o", "r", "t", "r", "a", "i", "t">>],
      [variant |-> "LandscapePrimary",
       token |-> <<"l", "a", "n", "d", "s", "c", "a", "p", "e", "-", "p", "r",
                     "i", "m", "a", "r", "y">>],
      [variant |-> "LandscapeSecondary",
       token |-> <<"l", "a", "n", "d", "s", "c", "a", "p", "e", "-", "s", "e",
                     "c", "o", "n", "d", "a", "r", "y">>],
      [variant |-> "PortraitPrimary",
       token |-> <<"p", "o", "r", "t", "r", "a", "i", "t", "-", "p", "r", "i",
                     "m", "a", "r", "y">>],
      [variant |-> "PortraitSecondary",
       token |-> <<"p", "o", "r", "t", "r", "a", "i", "t", "-", "s", "e", "c",
                     "o", "n", "d", "a", "r", "y">>] }

\* enum ShareTargetMethod: the text of the pattern of each variant, which is
\* matched without regard to case
ShareTargetMethod ==
    { [variant |-> "Get",
       token |-> <<"G", "E", "T">>],
      [variant |-> "Post",
       token |-> <<"P", "O", "S", "T">>] }

\* enum ShareTargetEnctype: the text of the pattern of each variant, which
\* is matched without regard to case
ShareTargetEnctype ==
    { [variant |-> "UrlEncoded",
       token |-> <<"a", "p", "p", "l", "i", "c", "a", "t", "i", "o", "n", "/",
                     "x", "-", "w", "w", "w", "-", "f", "o", "r", "m", "-", "u",
                     "r", "l", "e", "n", "c", "o", "d", "e", "d">>],
      [variant |-> "FormData",
       token |-> <<"m", "u", "l", "t", "i", "p", "a", "r", "t", "/", "f", "o",
                     "r", "m", "-", "d", "a", "t", "a">>] }

\* enum ImagePurpose: the snake_case name of each variant, which is both
\* its display form and what from_str accepts
ImagePurpose ==
    { [variant |-> "Any",
       token |-> <<"a", "n", "y">>],
      [variant |-> "Monochrome",
       token |-> <<"m", "o", "n", "o", "c", "h", "r", "o", "m", "e">>],
      [variant |-> "Maskable",
       token |-> <<"m", "a", "s", "k", "a", "b", "l", "e">>] }
\* the derived Deserialize of an enum with a serde name per variant: the
\* token is one of the names, or the token is an unknown variant
deserialize_variant(enum, text) ==
    IF \E v \in enum : v.token = text
    THEN Success((CHOOSE v \in enum : v.token = text).variant)
    ELSE Failure("unknown variant")

\* the derived FromStr with the pattern "(?i)token" per variant
from_str_ignore_case(enum, text) ==
    IF \E v \in enum : lowercase(v.token) = lowercase(text)
    THEN Success((CHOOSE v \in enum : lowercase(v.token) = lowercase(text)).variant)
    ELSE Failure("ParseError")

\* the derived FromStr of ImagePurpose: the pattern of a variant is its
\* display form, matched as written
from_str_display(enum, text) ==
    IF \E v \in enum : v.token = text
    THEN Success((CHOOSE v \in enum : v.token = text).variant)
    ELSE Failure("ParseError")

\* the derived FromStr of ImageSize: "(?P<0>[0-9]+)[xX](?P<1>[0-9]+)" for
\* Fixed and "(?i)any" for Any
from_str_image_size_at(text, x) ==
    IF /\ x > 1
       /\ x < Len(text)
       /\ \A i \in 1..Len(text) : i # x => text[i] \in Digits
    THEN Success([variant |-> "Fixed",
                  width |-> parse_port(SubSeq(text, 1, x - 1), 0),
                  height |-> parse_port(SubSeq(text, x + 1, Len(text)), 0)])
    ELSE IF lowercase(text) = <<"a", "n", "y">> THEN Success([variant |-> "Any"])
    ELSE Failure("ParseError")

from_str_image_size(text) == from_str_image_size_at(text, Find(text, {"x", "X"}, 1))

\* the decoding of the token of an enumerated field
decode(field, text) ==
    CASE field = "dir" -> deserialize_variant(Direction, text)
      [] field = "display" -> deserialize_variant(Display, text)
      [] field = "orientation" -> deserialize_variant(Orientation, text)
      [] field = "method" -> from_str_ignore_case(ShareTargetMethod, text)
      [] field = "enctype" -> from_str_ignore_case(ShareTargetEnctype, text)
      [] field = "purpose" -> from_str_display(ImagePurpose, text)
      [] field = "sizes" -> from_str_image_size(text)

\* the canonical tokens of a field; of the image sizes: any, 16x16, 8x32
CanonicalTokens(field) ==
    CASE field = "dir" -> { v.token : v \in Direction }
      [] field = "display" -> { v.token : v \in Display }
      [] field = "orientation" -> { v.token : v \in Orientation }
      [] field = "method" -> { v.token : v \in ShareTargetMethod }
      [] field = "enctype" -> { v.token : v \in ShareTargetEnctype }
      [] field = "purpose" -> { v.token : v \in ImagePurpose }
      [] field = "sizes" -> { <<"a", "n", "y">>, <<"1", "6", "x", "1", "6">>,
                              <<"8", "x", "3", "2">> }

EnumFields == {"dir", "display", "orientation", "method", "enctype", "purpose", "sizes"}

\* letter-case variants of a token: the token, all in upper case, all in
\* lower case, and with one of its characters in upper case
CaseVariants(token) ==
    { token, uppercase(token), lowercase(token) }
    \cup { [token EXCEPT ![i] = to_ascii_uppercase(@)] : i \in 1..Len(token) }

(***************************************************************************)
(* Tokens and texts as a state machine: a token of an enumerated field is  *)
(* decoded, or a text is parsed into a Url that is converted back to a     *)
(* String.                                                                 *)
(*   conversion  the last conversion: its name, its input and its output   *)
(***************************************************************************)
InitText ==
    /\ manifest = Document(Unknown, Unknown, <<>>, <<>>)
    /\ args = <<>>
    /\ result = NoCall
    /\ before = manifest
    /\ calls = 0
    /\ conversion = NoConversion
    /\ threads = <<>>
    /\ counter = 0

\* a field holds a letter-case variant of one of its canonical tokens and is
\* decoded
Decode ==
    \E field \in EnumFields :
    \E canonical \in CanonicalTokens(field) :
    \E text \in CaseVariants(canonical) :
        /\ conversion' = Conversion("decode",
                                    [field |-> field, canonical |-> canonical, text |-> text],
                                    decode(field, text))
        /\ UNCHANGED <<manifest, args, result, before, calls, threads, counter>>

\* let url = Url::from_str(string).unwrap();
\* let string: Result<String, _> = url.try_into()
FromStrIntoString ==
    \E string \in Texts :
        /\ conversion' = Conversion("from_str_into_string", string,
                                    try_into_string(from_str(string).value))
        /\ UNCHANGED <<manifest, args, result, before, calls, threads, counter>>

NextText == Decode \/ FromStrIntoString

SpecText == InitText /\ [][NextText]_vars

(***************************************************************************)
(* C22  Every enumerated field (display mode, orientation, direction,      *)
(* share-target method, share-target body encoding, image purpose, image   *)
(* size) decodes case-insensitively: every letter-case variant of a valid  *)
(* token decodes to the same variant as the canonical token.               *)
(***************************************************************************)
\* C22 as claimed: a letter-case variant of a canonical token of any
\* enumerated field decodes, and decodes to what the canonical token
\* decodes to
C22_DecodesCaseInsensitively ==
    conversion.op = "decode" =>
        /\ conversion.output.ok
        /\ conversion.output = decode(conversion.input.field, conversion.input.canonical)

\* the fields whose tokens the code matches without regard to case
IgnoreCaseFields == {"method", "enctype", "sizes"}

\* what holds of the code: the share-target method, the share-target body
\* encoding and the image size decode whatever the case of the letters; a
\* display mode, orientation, direction or image purpose decodes only when
\* written as the canonical token
C22_OnlyPatternFieldsIgnoreCase ==
    conversion.op = "decode" =>
        /\ conversion.input.field \in IgnoreCaseFields =>
              /\ conversion.output.ok
              /\ conversion.output = decode(conversion.input.field, conversion.input.canonical)
        /\ conversion.input.field \notin IgnoreCaseFields =>
              (conversion.output.ok <=> conversion.input.text = conversion.input.canonical)

\* the token Standalone of the display mode was not decoded
C22_WitnessDisplay ==
    /\ conversion.op = "decode"
    /\ conversion.input.field = "display"
    /\ conversion.input.text = <<"S", "t", "a", "n", "d", "a", "l", "o", "n", "e">>
    /\ conversion.output = Failure("unknown variant")

\* the token Maskable of the image purpose was not decoded
C22_WitnessPurpose ==
    /\ conversion.op = "decode"
    /\ conversion.input.field = "purpose"
    /\ conversion.input.text = <<"M", "a", "s", "k", "a", "b", "l", "e">>
    /\ ~conversion.output.ok

\* the image size 16X16 was decoded as 16 by 16
C22_WitnessSize ==
    /\ conversion.op = "decode"
    /\ conversion.input.text = <<"1", "6", "X", "1", "6">>
    /\ conversion.output = Success([variant |-> "Fixed", width |-> 16, height |-> 16])

(***************************************************************************)
(* C23  For a manifest whose start_url and scope are both Unknown and      *)
(* which has no resources, process succeeds for every document_url and     *)
(* manifest_url, leaving start_url = Absolute(document_url) and scope =    *)
(* Absolute(join(document_url, ".")); such a manifest is never rejected    *)
(* with NotSameOrigin or NotWithinScope.                                   *)
(***************************************************************************)
\* the document at the entry of the call was the default one
DefaultManifest ==
    /\ before.start_url = Unknown
    /\ before.scope = Unknown
    /\ Records(before) = 0

\* C23 as claimed: a call on the default document returns Ok, whatever the
\* document URL and the manifest URL, and leaves the document URL in
\* start_url and its directory in scope
C23_DefaultManifestAccepted ==
    (Returned /\ DefaultManifest) =>
        /\ result = Ok
        /\ manifest.start_url = Absolute(document_url)
        /\ manifest.scope = Absolute(join(document_url, <<".">>).url)

\* the default document was rejected with NotSameOrigin, its start URL being
\* the document URL itself
C23_WitnessNotSameOrigin ==
    /\ Returned
    /\ DefaultManifest
    /\ result = NotSameOrigin(document_url, document_url)

\* the default document was rejected because the document URL has no
\* directory
C23_WitnessNoDirectory ==
    /\ Returned
    /\ DefaultManifest
    /\ result = UrlParsing("RelativeUrlWithCannotBeABaseBase")
    /\ cannot_be_a_base(document_url)

\* the default document was accepted under an https document URL
C23_WitnessAccepted ==
    /\ Returned
    /\ DefaultManifest
    /\ result = Ok
    /\ manifest.start_url = Absolute(document_url)
    /\ manifest.scope = Absolute(Https(<<"a">>, <<"/", "a", "/">>))

(***************************************************************************)
(* C24  Text round trip: for every string s, parsing s into a tri-state    *)
(* URL and converting the result back to a String yields s unchanged, both *)
(* when s parses as Absolute and when it is kept as Relative.              *)
(***************************************************************************)
\* C24 as claimed: a text that is parsed and converted back is the text
C24_TextRoundTrip ==
    conversion.op = "from_str_into_string" =>
        conversion.output = Success(conversion.input)

\* C24 amended: a text that is kept as Relative is converted back unchanged;
\* a text that parses as an absolute URL is converted back to the string
\* form of that URL, which parses to the same URL and is itself converted
\* back unchanged
C24_TextRoundTripOfNormalForm ==
    conversion.op = "from_str_into_string" =>
        /\ conversion.output.ok
        /\ ~parse(conversion.input).ok => conversion.output.value = conversion.input
        /\ parse(conversion.input).ok =>
              /\ parse(conversion.output.value) = parse(conversion.input)
              /\ try_into_string(from_str(conversion.output.value).value)
                    = conversion.output

\* the text https://a/a/../b came back as https://a/b
C24_Witness ==
    /\ conversion.op = "from_str_into_string"
    /\ conversion.input = Text("https", <<"/", "/", "a", "/", "a", "/", ".", ".", "/", "b">>)
    /\ conversion.output = Success(Text("https", <<"/", "/", "a", "/", "b">>))

\* the text https://a:8/a/b, the string form of a URL, came back unchanged
C24_WitnessNormalForm ==
    /\ conversion.op = "from_str_into_string"
    /\ conversion.input = Text("https", <<"/", "/", "a", ":", "8", "/", "a", "/", "b">>)
    /\ conversion.output = Success(conversion.input)

\* the text https://, which has a scheme and does not parse, came back
\* unchanged
C24_WitnessRelative ==
    /\ conversion.op = "from_str_into_string"
    /\ conversion.input = Text("https", <<"/", "/">>)
    /\ conversion.output = Success(conversion.input)

(***************************************************************************)
(* C25  Partial rewrite on error: when process fails while resolving some  *)
(* field f (UrlParsing or InvalidUnknownUrl), every URL field before f in  *)
(* processing order is Absolute with the value it would have on success,   *)
(* and f and every URL field after f hold the values they had before the   *)
(* call; when process fails with NotSameOrigin or NotWithinScope, every    *)
(* URL field of the document is already Absolute.                          *)
(***************************************************************************)
\* what a successful call leaves in field i of the document: an Absolute
\* stays, a Relative is joined to the manifest URL, the unset start URL is
\* the document URL and the unset scope the directory of the start URL
OnSuccess(i) ==
    IF Fields(before)[i].tag = "Absolute" THEN Fields(before)[i]
    ELSE IF Fields(before)[i].tag = "Relative"
    THEN Absolute(join(manifest_url, Fields(before)[i].ref).url)
    ELSE IF i = 1 THEN Absolute(document_url)
    ELSE Absolute(join(Fields(manifest)[1].url, <<".">>).url)

\* C25: after a call that returned UrlParsing or InvalidUnknownUrl, the
\* fields before the first field that does not resolve hold what a
\* successful call leaves in them, and that field and the fields after it
\* hold what they held at the entry; after a call that returned
\* NotSameOrigin or NotWithinScope every field is Absolute
C25_PartialRewrite ==
    Returned =>
        /\ result.kind \in {"UrlParsing", "InvalidUnknownUrl"} =>
              /\ Failing # {}
              /\ Len(Fields(manifest)) = Len(Fields(before))
              /\ \A i \in DOMAIN Fields(before) :
                    IF i < Least(Failing)
                    THEN Fields(manifest)[i] = OnSuccess(i)
                    ELSE Fields(manifest)[i] = Fields(before)[i]
        /\ result.kind \in {"NotSameOrigin", "NotWithinScope"} => AllAbsolute(manifest)

\* the call failed at the icon of a shortcut: the start URL, the scope and
\* the shortcut's URL are rewritten, the icon and a later screenshot are not
C25_Witness ==
    /\ Returned
    /\ result.kind = "UrlParsing"
    /\ before.start_url.tag = "Relative"
    /\ before.scope = Unknown
    /\ Len(before.shortcuts) = 1
    /\ Len(before.shortcuts[1].icons) = 1
    /\ before.shortcuts[1].url.tag = "Relative"
    /\ manifest.start_url.tag = "Absolute"
    /\ manifest.scope.tag = "Absolute"
    /\ manifest.shortcuts[1].url.tag = "Absolute"
    /\ manifest.shortcuts[1].icons[1].src = Relative(BadRef)

\* the call failed on an unset URL, after it resolved the start URL and
\* before a relative URL that it left as it was
C25_WitnessUnknown ==
    /\ Returned
    /\ result = InvalidUnknownUrl
    /\ Least(Failing) = 3
    /\ Len(Fields(before)) = 4
    /\ before.start_url.tag = "Relative"
    /\ manifest.start_url.tag = "Absolute"
    /\ Fields(manifest)[3] = Unknown
    /\ Fields(manifest)[4].tag = "Relative"

(***************************************************************************)
(* C26  process changes nothing except tri-state URL fields: every non-URL *)
(* field of the manifest and of its records, the number and order of       *)
(* related applications, protocol handlers, shortcuts, shortcut icons,     *)
(* icons and screenshots, and the presence or absence of the share target  *)
(* and of each related application's URL are the same after the call as    *)
(* before it, on success and on error.                                     *)
(***************************************************************************)
BlankSrcs(images) == [i \in DOMAIN images |-> [images[i] EXCEPT !.src = Unknown]]

\* the document with every tri-state URL it holds replaced by Unknown: what
\* is left are the other fields, the lists and what is present
Blank(m) ==
    [m EXCEPT
       !.start_url = Unknown,
       !.scope = Unknown,
       !.related_applications =
           [i \in DOMAIN @ |-> [@[i] EXCEPT !.url = IF @ = None THEN None ELSE Some(Unknown)]],
       !.protocol_handlers = [i \in DOMAIN @ |-> [@[i] EXCEPT !.url = Unknown]],
       !.shortcuts = [i \in DOMAIN @ |-> [@[i] EXCEPT !.url = Unknown,
                                                       !.icons = BlankSrcs(@)]],
       !.share_target = [i \in DOMAIN @ |-> [@[i] EXCEPT !.action = Unknown]],
       !.icons = BlankSrcs(@),
       !.screenshots = BlankSrcs(@)]

\* C26: after a call, whatever it returned, the document differs from the
\* document at the entry in tri-state URLs only, and every URL is in the
\* place it was: it is the URL of the entry, or an Absolute in the place of
\* a URL that was not
C26_OnlyUrlFieldsChange ==
    Returned =>
        /\ DOMAIN manifest = DOMAIN before
        /\ Blank(manifest) = Blank(before)
        /\ Len(Fields(manifest)) = Len(Fields(before))
        /\ \A i \in DOMAIN Fields(before) :
              \/ Fields(manifest)[i] = Fields(before)[i]
              \/ /\ Fields(before)[i].tag # "Absolute"
                 /\ Fields(manifest)[i].tag = "Absolute"

\* a failed call on a document with a related application without a URL and
\* a share target whose action does not resolve: both are as they were,
\* while the start URL was rewritten
C26_Witness ==
    /\ Returned
    /\ result.kind = "UrlParsing"
    /\ Len(before.related_applications) = 1
    /\ before.related_applications[1].url = None
    /\ Len(before.share_target) = 1
    /\ manifest.share_target = before.share_target
    /\ manifest.related_applications = before.related_applications
    /\ manifest.start_url # before.start_url

\* a successful call that rewrote the URLs of two icons of different src
C26_WitnessSuccess ==
    /\ result = Ok
    /\ Len(before.icons) = 2
    /\ before.icons[1].src # before.icons[2].src
    /\ manifest.icons # before.icons
    /\ manifest.icons[1].label = before.icons[1].label

(***************************************************************************)
(* C27  None of the unreachable!() branches of process can be reached for  *)
(* any input document and context URLs: when the default scope is derived  *)
(* the start URL is already Absolute, and whenever the validation phase    *)
(* reads scope, start_url, a protocol handler URL, a shortcut URL or the   *)
(* share target action, that field is Absolute.                            *)
(***************************************************************************)
\* the outcomes of the validation phase
ValidationOutcomes == {"Ok", "NotSameOrigin", "NotWithinScope"}

\* C27: no call ends in an unreachable!() branch; when the scope was unset
\* and the start URL did not fail to resolve, the start URL is Absolute; and
\* when the call got as far as the validation, the start URL, the scope and
\* every protocol handler URL, shortcut URL and share target action are
\* Absolute
C27_UnreachableIsUnreachable ==
    Returned =>
        /\ result # Panic
        /\ (before.scope = Unknown /\ 1 \notin Failing) =>
              manifest.start_url.tag = "Absolute"
        /\ result.kind \in ValidationOutcomes =>
              /\ manifest.scope.tag = "Absolute"
              /\ \A i \in DOMAIN Restricted(manifest) :
                    Restricted(manifest)[i].tag = "Absolute"

\* the validation ran on a document that came with an unset start URL and
\* scope, a relative protocol handler URL and a relative shortcut URL
C27_Witness ==
    /\ Returned
    /\ result.kind \in ValidationOutcomes
    /\ before.start_url = Unknown
    /\ before.scope = Unknown
    /\ Len(before.protocol_handlers) = 1
    /\ Len(before.shortcuts) = 1
    /\ before.protocol_handlers[1].url.tag = "Relative"
    /\ before.shortcuts[1].url.tag = "Relative"
    /\ manifest.scope.tag = "Absolute"

\* the validation ran on a document with a share target
C27_WitnessShareTarget ==
    /\ result.kind = "NotWithinScope"
    /\ Len(before.share_target) = 1
    /\ before.share_target[1].action.tag = "Relative"
    /\ result.url = manifest.share_target[1].action.url

(***************************************************************************)
(* C28  Failure is stable: if process(document_url, manifest_url) fails    *)
(* with error e, calling process again with the same two URLs on the same, *)
(* partially rewritten document fails with an equal error e and changes no *)
(* field of the document.                                                  *)
(***************************************************************************)
\* C28: a call that follows a failed call with the same two URLs, on the
\* document the failed call left, ends in the same error and leaves the
\* document as it found it
C28_FailureIsStable ==
    [][(Returned /\ result # Ok /\ args' = args) =>
           /\ result' = result
           /\ manifest' = manifest]_vars

\* the second call has failed on a start URL the first call had resolved
\* and a resource URL that cannot be resolved
C28_Witness ==
    /\ calls = 2
    /\ result.kind = "UrlParsing"
    /\ before.start_url.tag = "Absolute"
    /\ Least(Failing) > 2
    /\ manifest = before

\* the second call has failed in the validation
C28_WitnessValidation ==
    /\ calls = 2
    /\ result.kind = "NotWithinScope"
    /\ manifest = before

(***************************************************************************)
(* C29  Whenever process succeeds, the start URL, the scope, every         *)
(* protocol handler URL, every shortcut URL and the share target action    *)
(* all have the same origin as document_url, and the path of each of these *)
(* URLs begins with the path of the scope.                                 *)
(***************************************************************************)
\* a and b have the same origin: a tuple origin of equal scheme, host, port
SameOrigin(a, b) ==
    /\ a.scheme \in TupleSchemes
    /\ b.scheme \in TupleSchemes
    /\ ~SchemeHostPortDiffer(a, b)

\* the scope and the URLs that the validation compares with it
Validated(m) == <<m.scope>> \o Restricted(m)

\* C29: after a successful call the scope, the start URL and every protocol
\* handler URL, shortcut URL and share target action are Absolute, of the
\* origin of document_url, with a path that begins with the scope's path
C29_AcceptedUrlsOfDocumentOriginWithinScope ==
    (Returned /\ result = Ok) =>
        \A i \in DOMAIN Validated(manifest) :
           /\ Validated(manifest)[i].tag = "Absolute"
           /\ SameOrigin(Validated(manifest)[i].url, document_url)
           /\ IsPrefix(manifest.scope.url.path, Validated(manifest)[i].url.path)

\* an accepted document with a protocol handler and a shortcut, whose URLs
\* were relative and differ from the start URL
C29_Witness ==
    /\ Returned
    /\ result = Ok
    /\ Len(before.protocol_handlers) = 1
    /\ Len(before.shortcuts) = 1
    /\ before.protocol_handlers[1].url.tag = "Relative"
    /\ before.shortcuts[1].url.tag = "Relative"
    /\ manifest.shortcuts[1].url # manifest.start_url

\* an accepted document with a share target
C29_WitnessShareTarget ==
    /\ Returned
    /\ result = Ok
    /\ Len(manifest.share_target) = 1
    /\ before.scope.tag = "Relative"

(***************************************************************************)
(* Documents for the comparison of queries and fragments: the start URL,   *)
(* the scope and at most one protocol handler, shortcut or share target    *)
(* hold references and URLs with and without the query ?a and the fragment *)
(* #b.  The manifest URL is https://a/a/b/a, https://b/a/a or data:a, the  *)
(* last of which cannot be a base.                                         *)
(***************************************************************************)
QueryParts == { <<>>, <<"?", "a">> }
FragmentParts == { <<>>, <<"#", "b">> }

\* b and the empty reference, https://a/a/b and https://a/b, each with and
\* without ?a and #b
QueryUrlVals ==
    { Relative(p \o q \o f) : p \in { <<>>, <<"b">> }, q \in QueryParts, f \in FragmentParts }
    \cup { Absolute(AbsUrl("https", <<"a">>, 443, <<"/", "a", "/", "b">>, q, f)) :
             q \in QueryParts, f \in FragmentParts }
    \cup { Absolute(Https(<<"a">>, <<"/", "b">>)) }

\* unset, the empty reference and https://a/a/, each with and without ?a
\* and #b
QueryScopeVals ==
    { Unknown }
    \cup { Relative(q \o f) : q \in QueryParts, f \in FragmentParts }
    \cup { Absolute(AbsUrl("https", <<"a">>, 443, <<"/", "a", "/">>, q, f)) :
             q \in QueryParts, f \in FragmentParts }

QueryStartVals ==
    { Unknown, Relative(<<"b">>), Relative(<<"b", "?", "a">>), Relative(<<"#", "b">>),
      Relative(<<"?", "a", "#", "b">>),
      Absolute(Https(<<"a">>, <<"/", "a", "/", "b">>)),
      Absolute(AbsUrl("https", <<"a">>, 443, <<"/", "a", "/", "b">>, <<"?", "a">>, <<"#", "b">>)) }

QueryDocuments ==
    UNION { { Document(su, sc, <<>>, <<>>) }
            \cup { [Document(su, sc, <<>>, <<>>) EXCEPT
                      !.protocol_handlers = <<[protocol |-> "mailto", url |-> u]>>] :
                   u \in QueryUrlVals }
            \cup { Document(su, sc, <<[name |-> "shortcut", url |-> u, icons |-> <<>>]>>, <<>>) :
                   u \in QueryUrlVals }
            \cup { [Document(su, sc, <<>>, <<>>) EXCEPT
                      !.share_target = Some([action |-> u, method |-> "GET"])] :
                   u \in QueryUrlVals } :
            su \in QueryStartVals, sc \in QueryScopeVals }

QueryManifestUrls == ManifestUrls \cup { AbsUrl("data", <<>>, 0, <<"a">>, <<>>, <<>>) }

InitQuery ==
    /\ manifest \in QueryDocuments
    /\ args = <<>>
    /\ result = NoCall
    /\ before = manifest
    /\ calls = 0
    /\ conversion = NoConversion
    /\ threads = <<>>
    /\ counter = 0

\* the call on a document, with the document URL https://a/a/b and any of
\* the manifest URLs
ProcessQuery ==
    /\ calls = 0
    /\ \E url \in QueryManifestUrls :
          Call(Https(<<"a">>, <<"/", "a", "/", "b">>), url)

NextQuery == ProcessQuery

SpecQuery == InitQuery /\ [][NextQuery]_vars

(***************************************************************************)
(* C30  Scope containment depends only on origin and path: two documents   *)
(* that are identical except for the query or fragment of the scope, or of *)
(* a scope-restricted URL (start URL, protocol handler URL, shortcut URL,  *)
(* share target action), get the same outcome from process with the same   *)
(* context URLs (both succeed, or both fail with the same error kind).     *)
(***************************************************************************)
\* the tri-state URL v with the query q and the fragment f
WithQueryAndFragment(v, q, f) ==
    IF v.tag = "Absolute" THEN Absolute([v.url EXCEPT !.query = q, !.fragment = f])
    ELSE IF v.tag = "Relative" THEN Relative(reference(v.ref).path \o q \o f)
    ELSE v

\* the documents that differ from m in the query or the fragment of the
\* scope or of one scope-restricted URL
Variants(m) ==
    UNION { { [m EXCEPT !.start_url = WithQueryAndFragment(@, q, f)],
              [m EXCEPT !.scope = WithQueryAndFragment(@, q, f)],
              [m EXCEPT !.protocol_handlers =
                  [i \in DOMAIN @ |-> [@[i] EXCEPT !.url = WithQueryAndFragment(@, q, f)]]],
              [m EXCEPT !.shortcuts =
                  [i \in DOMAIN @ |-> [@[i] EXCEPT !.url = WithQueryAndFragment(@, q, f)]]],
              [m EXCEPT !.share_target =
                  [i \in DOMAIN @ |-> [@[i] EXCEPT !.action = WithQueryAndFragment(@, q, f)]]] } :
            q \in QueryParts, f \in FragmentParts }

\* the outcome of process on the document m: Ok or the kind of the error
Outcome(m) == process(m, document_url, manifest_url).r.kind

\* C30 as stated: every document that differs from the processed one in a
\* query or a fragment of the scope or of a scope-restricted URL gets the
\* outcome of the processed one, whatever the manifest URL
C30_QueryAndFragmentIgnored ==
    Returned => \A v \in Variants(before) : Outcome(v) = result.kind

\* C30: when the manifest URL can be a base, every document that differs
\* from the processed one in a query or a fragment of the scope or of a
\* scope-restricted URL gets the outcome of the processed one
C30_QueryAndFragmentIgnoredUnderBase ==
    (Returned /\ ~cannot_be_a_base(manifest_url)) =>
        \A v \in Variants(before) : Outcome(v) = result.kind

\* an accepted document whose scope carries a query and whose shortcut URL
\* is a reference with a fragment, under a manifest URL that can be a base
C30_Witness ==
    /\ Returned
    /\ ~cannot_be_a_base(manifest_url)
    /\ result = Ok
    /\ before.scope.tag = "Absolute"
    /\ before.scope.url.query # <<>>
    /\ Len(before.shortcuts) = 1
    /\ before.shortcuts[1].url = Relative(<<"b", "#", "b">>)
    /\ manifest.shortcuts[1].url.url.fragment = <<"#", "b">>

\* a rejected document whose share target action carries a query
C30_WitnessRejected ==
    /\ Returned
    /\ ~cannot_be_a_base(manifest_url)
    /\ result.kind = "NotWithinScope"
    /\ Len(before.share_target) = 1
    /\ before.share_target[1].action.tag = "Absolute"
    /\ before.share_target[1].action.url.query # <<>>

\* under the manifest URL data:a the reference #b resolves, and the
\* shortcut URL is outside the scope
C30_WitnessFragmentOnly ==
    /\ Returned
    /\ cannot_be_a_base(manifest_url)
    /\ result.kind = "NotWithinScope"
    /\ Len(before.shortcuts) = 1
    /\ before.shortcuts[1].url = Relative(<<"#", "b">>)
    /\ Outcome([before EXCEPT !.shortcuts[1].url = Relative(<<"?", "a", "#", "b">>)])
          = "UrlParsing"

====
